---- MODULE Spec2Model ----
(***************************************************************************)
(* Model of kilo_server: the change notifier (src/notify.rs) and the game  *)
(* registry GameManager (src/game/mod.rs).                                 *)
(*                                                                         *)
(* SpecNotify  one Notifier, its sender and one Subscription, with send()  *)
(*             and subscribe() split into their two memory operations.     *)
(* FairNotify  SpecNotify with the scheduling of the suspended wait.       *)
(* Spec        the GameManager: request threads running create_game (with  *)
(*             its GC sweep), receive_join, receive_move, get_state,       *)
(*             list_games and subscribe on the DashMap of Mutex<Game>.     *)
(*                                                                         *)
(* FairSpec    the operations of Spec under a fair scheduler.              *)
(* SpecGame    Spec on a registry of one game id, with accepted moves.     *)
(* SpecAdapter the registry with one game of either adapter: Connect4 or   *)
(*             Snake (src/game/snake.rs, which main.rs does not offer).    *)
(* SpecWait    SpecGame with tasks suspended in Subscription::wait.        *)
(* SpecSearch  one call of SearchEngine::apply (src/game/search.rs).       *)
(* SpecIdent   one GameId or SessionId, displayed and deserialized.        *)
(* SpecBoard   one Connect4 board (src/game/connect4.rs): insertions and   *)
(*             winning_move.                                               *)
(*                                                                         *)
(* The registry is modelled as src/game/mod.rs has it (api.rs is an older  *)
(* draft that no longer matches GameManager's signatures).  The Connect4   *)
(* board is not part of Spec: a move's effect on the board (illegal, won,  *)
(* drawn, game goes on) is an input of the move.                           *)
(***************************************************************************)
EXTENDS Integers, Sequences, FiniteSets, TLC

\* ------------------------------------------------------------------ bounds
\* Number of Notifier::send calls explored (more than the channel capacity).
MaxSends == 9
\* Number of times the wall clock advances (by one TTL each time).
NumTicks == 2
\* Number of accepted moves explored per game (a rejected move is always
\* explored; the registry treats an accepted one as it treats a join).
MaxMoves == 0
\* Number of accepted moves explored in the one game of SpecGame.
MaxMovesGame == 3
\* Number of accepted moves explored in the game of SpecAdapter (a round of
\* four Snake players ends with the fourth).
MaxMovesAdapter == 4
\* Number of summaries a listing is given, one by one.
MaxSummaries == 3
\* Number of summaries that follow a full page of summaries.
MaxTail == 1
\* Number of tokens dropped into a Connect4 board after its opening.
MaxTokens == 4

\* -------------------------------------------------------- program constants
\* broadcast::channel(8): the ring buffer keeps the last 8 values.
CHANNEL_CAPACITY == 8
\* AtomicUsize::new(1)
INITIAL_CLOCK == 1
\* Duration::minutes(5)
TTL == 5
\* MAX_USERNAME_LENGTH
MAX_USERNAME_LENGTH == 12
\* connect4::NUM_PLAYERS
NUM_PLAYERS == 2
\* snake::NUM_PLAYERS
SNAKE_NUM_PLAYERS == 4
\* search::LIST_GAME_SUMMARY_COUNT
LIST_GAME_SUMMARY_COUNT == 20
\* connect4::ROW_SIZE, COL_SIZE, CONNECT_FOUR
ROW_SIZE == 6
COL_SIZE == 7
CONNECT_FOUR == 4
\* struct GameId([u8; 4])
GAME_ID_BYTES == 4
\* struct SessionId([u8; 16])
SESSION_ID_BYTES == 16

\* The subscriptions (one Subscription value is enough for every claim on it).
Subs == {"w1"}

VARIABLES
    clock,      \* Notifier.clock (AtomicUsize)
    closed,     \* the broadcast Sender was dropped with its Notifier
    sent,       \* every value the channel accepted, oldest first (tail = Len)
    sendPc,     \* position of the thread inside Notifier::send
    sendVal,    \* the value fetch_add returned to that thread
    nsends,     \* number of send() calls that performed their fetch_add
    sub         \* per Subscription: position, receiver cursor, snapshot, result
                \* and the history of the sends it raced with:
                \*   fetchAfterLoad  the send in flight did its fetch_add after
                \*                   the snapshot was loaded
                \*   fetchAfterSub   ... after subscribe() returned
                \*   missed          a send was neither in the snapshot nor
                \*                   stored for the receiver
                \*   sentAfter       a whole send() ran after subscribe()
                \*   hadSend         sentAfter, when wait returned
                \*   openAtReturn    the Notifier was alive when wait returned
                \*   dropSeen        the Notifier was dropped while this wait was
                \*                   suspended with nothing to read

VARIABLES
    games,      \* GameManager.games: GameId -> Game (NoGame: no entry)
    lockHolder, \* per Mutex<Game>: the thread holding its guard, or NoThread
    now,        \* the wall clock Utc::now() reads, in minutes
    th,         \* per request thread: the operation it runs and its position
    ret         \* what the last step returned to its caller (NoRet: nothing)

VARIABLES
    search,     \* one call of SearchEngine::apply: the summaries its iterator
                \* yields, the SearchOptions and the result
    ident,      \* one identifier: its bytes, a text and what the text parses to
    c4          \* one Connect4 struct: board and turn, and what the last
                \* insertion and its winning_move returned

nvars == <<clock, closed, sent, sendPc, sendVal, nsends, sub>>
rvars == <<games, lockHolder, now, th, ret>>
\* The arguments and results of the functions that touch no shared state.
pvars == <<search, ident, c4>>
vars == <<clock, closed, sent, sendPc, sendVal, nsends, sub,
          games, lockHolder, now, th, ret, search, ident,
          c4>>

\* ------------------------------------------------------------ result values
Ok(v) == [ok |-> TRUE, val |-> v]
Err == [ok |-> FALSE, val |-> 0]
NoResult == [ok |-> FALSE, val |-> -1]

NoSub ==
    [pc |-> "none", next |-> 0, regPos |-> 0, clock |-> 0, since |-> 0,
     result |-> NoResult, via |-> "none", hasRx |-> FALSE, hasClock |-> FALSE,
     fetchAfterLoad |-> FALSE, fetchAfterSub |-> FALSE, missed |-> FALSE,
     sentAfter |-> FALSE, hadSend |-> FALSE, openAtReturn |-> FALSE,
     dropSeen |-> FALSE]

\* ------------------------------------------------- tokio broadcast channel
\* Number of live Receivers (tail.rx_cnt).
RxCount == Cardinality({w \in Subs : sub[w].hasRx})

\* Sender::send(v): the value is stored only when a receiver exists; the
\* error returned otherwise is discarded by `let _ =`.
Broadcast(log, v) == IF RxCount = 0 THEN log ELSE Append(log, v)

\* Receiver::recv() polled with cursor `next` on a channel holding `log`.
RecvOutcome(next, log, isClosed) ==
    IF Len(log) - next > CHANNEL_CAPACITY THEN "lagged"
    ELSE IF next < Len(log) THEN "value"
    ELSE IF isClosed THEN "closed"
    ELSE "pending"

\* ------------------------------------------------------------ Notifier::send
\* self.clock.fetch_add(1, SeqCst): returns the value before the increment.
FetchAdd(c) == [old |-> c, new |-> c + 1]

\* The argument send() passes to the channel.
SendArgument(c) == FetchAdd(c).old

SendFetch ==
    /\ sendPc = "idle"
    /\ ~closed
    /\ nsends < MaxSends
    /\ sendVal' = SendArgument(clock)
    /\ clock' = FetchAdd(clock).new
    /\ nsends' = nsends + 1
    /\ sendPc' = "fetched"
    /\ sub' = [w \in Subs |->
                 [sub[w] EXCEPT !.fetchAfterLoad = sub[w].hasClock,
                                !.fetchAfterSub = sub[w].pc \in {"ready", "waiting"}]]
    /\ UNCHANGED <<closed, sent>>
    /\ UNCHANGED <<rvars, pvars>>

SendBroadcast ==
    /\ sendPc = "fetched"
    /\ sent' = Broadcast(sent, sendVal)
    /\ sendPc' = "idle"
    /\ sub' = [w \in Subs |->
                 [sub[w] EXCEPT
                    !.missed = @ \/ (sub[w].fetchAfterLoad /\ ~sub[w].hasRx),
                    !.sentAfter = @ \/ sub[w].fetchAfterSub,
                    !.fetchAfterLoad = FALSE,
                    !.fetchAfterSub = FALSE]]
    /\ UNCHANGED <<clock, closed, sendVal, nsends>>
    /\ UNCHANGED <<rvars, pvars>>

\* gc_games evicts the game: its adapter and Notifier are dropped and the
\* Sender closes. send(&self) borrows the Notifier, so no send is in flight.
DropNotifier ==
    /\ sendPc = "idle"
    /\ ~closed
    /\ closed' = TRUE
    /\ sub' = [w \in Subs |->
                 [sub[w] EXCEPT !.dropSeen =
                    /\ sub[w].pc = "waiting"
                    /\ RecvOutcome(sub[w].next, sent, closed) = "pending"]]
    /\ UNCHANGED <<clock, sent, sendPc, sendVal, nsends>>
    /\ UNCHANGED <<rvars, pvars>>

\* ------------------------------------------------------- Notifier::subscribe
\* Mutant: the clock is loaded before the receiver is registered.
SubscribeOrderClockFirst == <<"clock", "receiver">>

\* The struct literal evaluates its fields in the order written.
SubscribeOrder == <<"receiver", "clock">>

SubscribeField(w, f) ==
    IF f = "receiver"
    THEN [sub[w] EXCEPT !.next = Len(sent), !.regPos = Len(sent), !.hasRx = TRUE]
    ELSE [sub[w] EXCEPT !.clock = clock, !.hasClock = TRUE]

SubscribeFirst(w) ==
    /\ sub[w].pc = "none"
    /\ ~closed
    /\ sub' = [sub EXCEPT ![w] =
                 [SubscribeField(w, SubscribeOrder[1]) EXCEPT !.pc = "sub1"]]
    /\ UNCHANGED <<clock, closed, sent, sendPc, sendVal, nsends>>
    /\ UNCHANGED <<rvars, pvars>>

SubscribeSecond(w) ==
    /\ sub[w].pc = "sub1"
    /\ sub' = [sub EXCEPT ![w] =
                 [SubscribeField(w, SubscribeOrder[2]) EXCEPT !.pc = "ready"]]
    /\ UNCHANGED <<clock, closed, sent, sendPc, sendVal, nsends>>
    /\ UNCHANGED <<rvars, pvars>>

\* --------------------------------------------------------- Subscription::wait
\* Mutant: the comparison the other way round.
WaitImmediateReversed(snapshot, since) == snapshot < since

\* if self.clock > since
WaitImmediate(snapshot, since) == snapshot > since

\* Ok(Ok(clk)) => Ok(clk)
WaitRecvResult(clk, since) == Ok(clk)
\* Mutant: a closed channel answered like the timeout.
WaitRecvErrorAsUnchanged(snapshot) == Ok(snapshot)

\* Ok(Err(_)) => Err(NotifierError)
WaitRecvErrorResult(snapshot) == Err
\* Mutant: the elapsed timer reported as the notification error.
WaitTimeoutAsError(snapshot) == Err

\* Err(_) => Ok(self.clock)
WaitTimeoutResult(snapshot) == Ok(snapshot)

\* The values of `since` a caller passes, around the snapshot.
SinceChoices(snapshot) == {s \in {snapshot - 1, snapshot, snapshot + 1} : s >= 0}

Returned(s, res, how) ==
    [s EXCEPT !.pc = "done", !.result = res, !.via = how,
              !.hadSend = s.sentAfter, !.openAtReturn = ~closed]

WaitCall(w) ==
    /\ sub[w].pc = "ready"
    /\ \E since \in SinceChoices(sub[w].clock) :
         sub' = [sub EXCEPT ![w] =
                   IF WaitImmediate(sub[w].clock, since)
                   THEN Returned([sub[w] EXCEPT !.since = since],
                                 Ok(sub[w].clock), "immediate")
                   ELSE [sub[w] EXCEPT !.since = since, !.pc = "waiting"]]
    /\ UNCHANGED <<clock, closed, sent, sendPc, sendVal, nsends>>
    /\ UNCHANGED <<rvars, pvars>>

\* The suspended wait is resumed by the channel.
WaitRecv(w) ==
    /\ sub[w].pc = "waiting"
    /\ LET out == RecvOutcome(sub[w].next, sent, closed) IN
         /\ out \in {"value", "lagged", "closed"}
         /\ sub' = [sub EXCEPT ![w] =
              CASE out = "value" ->
                     Returned([sub[w] EXCEPT !.next = @ + 1],
                              WaitRecvResult(sent[sub[w].next + 1], sub[w].since),
                              "recv")
                [] out = "lagged" ->
                     Returned([sub[w] EXCEPT !.next = Len(sent) - CHANNEL_CAPACITY],
                              WaitRecvErrorResult(sub[w].clock), "lagged")
                [] out = "closed" ->
                     Returned(sub[w], WaitRecvErrorResult(sub[w].clock), "closed")]
    /\ UNCHANGED <<clock, closed, sent, sendPc, sendVal, nsends>>
    /\ UNCHANGED <<rvars, pvars>>

\* timeout() polls recv() first: the timer wins only while recv() is pending.
WaitTimeout(w) ==
    /\ sub[w].pc = "waiting"
    /\ RecvOutcome(sub[w].next, sent, closed) = "pending"
    /\ sub' = [sub EXCEPT ![w] =
                 Returned(sub[w], WaitTimeoutResult(sub[w].clock), "timeout")]
    /\ UNCHANGED <<clock, closed, sent, sendPc, sendVal, nsends>>
    /\ UNCHANGED <<rvars, pvars>>

\* The Subscription is dropped; the caller may subscribe again.
DropSubscription(w) ==
    /\ sub[w].pc = "done"
    /\ sub' = [sub EXCEPT ![w] = NoSub]
    /\ UNCHANGED <<clock, closed, sent, sendPc, sendVal, nsends>>
    /\ UNCHANGED <<rvars, pvars>>

\* ================================================================ GameManager
\* GameId is 4 random bytes, SessionId 16: small sets of values stand for them.
GameIds == {1, 2}
\* The one id of SpecGame.
OneGame == {1}
SessionIds == {1, 2, 3, 4}
Threads == {"t1", "t2"}
\* Usernames a caller may send: empty, two valid ones, one of 13 characters.
Usernames == {"", "al", "bo", "abcdefghijklm"}
\* Usernames sent in SpecAdapter: empty, and one more than Snake has slots.
SnakeUsernames == {"", "ann", "ben", "cat", "dan", "eve"}
\* What a move's payload does to the Connect4 board: it does not parse, names
\* a column >= COL_SIZE, names a full column, or is inserted and then wins,
\* draws or lets the game go on.
Payloads == {"malformed", "nocolumn", "fullcolumn", "goes_on", "wins", "draws"}

\* DashMap keeps its entries in shards, each behind its own RwLock.
Shards == {0, 1}
ShardOf(g) == g % Cardinality(Shards)
LastShard == Cardinality(Shards) - 1

NoGame == [live |-> FALSE]
NoThread == "none"
NoSession == "<none>"

IdleThread ==
    [pc |-> "idle", gid |-> 0, gcNow |-> 0, shard |-> 0, items |-> {},
     seen |-> 0]

\* What the last step reported: the return of an operation, or the number of
\* entries a visit of retain removed from a shard. No report in the last step:
NoRet ==
    [t |-> NoThread, op |-> "none", gid |-> 0, user |-> "", sid |-> 0,
     res |-> "none", val |-> 0]

\* Thread t returned `res` (and a value) from `op` on game g.
Returns(t, op, g, user, sid, res, val) ==
    [t |-> t, op |-> op, gid |-> g, user |-> user, sid |-> sid,
     res |-> res, val |-> val]

\* ------------------------------------------------------------ Connect4Adapter
\* Connect4Adapter::new
NewAdapter ==
    [type |-> "connect_4", players |-> <<>>, stage |-> "Waiting",
     turn |-> "Red", winner |-> <<>>,
     completed |-> FALSE, moves |-> 0, clock |-> INITIAL_CLOCK,
     broadcasts |-> 0]

\* A mutation that notifies twice.
NotifierSendTwice(a) ==
    [a EXCEPT !.clock = FetchAdd(FetchAdd(a.clock).new).new,
              !.broadcasts = @ + 2]

\* Notifier::send on the game's notifier, run under the game's lock: one
\* fetch_add on the clock and one value handed to the channel (`broadcasts`
\* counts them).
NotifierSend(a) ==
    [a EXCEPT !.clock = FetchAdd(a.clock).new, !.broadcasts = @ + 1]

\* A has_player that finds nobody.
HasPlayerNever(a, username) == FALSE

HasPlayer(a, username) == \E i \in 1..Len(a.players) : a.players[i] = username

\* The two assert!s at the head of add_player.
AddPlayerAsserts(a) == Len(a.players) < NUM_PLAYERS /\ a.stage = "Waiting"

\* An add_player that leaves a full game Waiting.
AddPlayerNoStart(a, username) ==
    NotifierSend([a EXCEPT !.players = Append(@, username)])

AddPlayer(a, username) ==
    LET pushed == [a EXCEPT !.players = Append(@, username)] IN
    NotifierSend(IF Len(pushed.players) = NUM_PLAYERS
                 THEN [pushed EXCEPT !.stage = "InProgress"]
                 ELSE pushed)

\* get_user_from_token unwraps players.get(0) or players.get(1).
TokenIndex(token) == IF token = "Red" THEN 1 ELSE 2
TokenHasUser(a, token) == TokenIndex(token) <= Len(a.players)
GetUserFromToken(a) == a.players[TokenIndex(a.turn)]

\* A switch_token that leaves the turn where it is.
SwitchTokenNever(token) == token

SwitchToken(token) == IF token = "Red" THEN "Blue" ELSE "Red"

\* A play_move that does not look at the stage.
StageErrorNever(a) == FALSE

\* play_move's first two checks: the stage is Waiting, or it is Ended.
StageError(a) == a.stage = "Waiting" \/ a.stage = "Ended"

\* play_move: the error it returns ("none": Ok) and the adapter it leaves.
PlayMove(a, user, payload) ==
    IF StageError(a)
    THEN [res |-> "InvalidGameStage", a |-> a]
    ELSE IF payload = "malformed" THEN [res |-> "BadPayload", a |-> a]
    ELSE IF ~TokenHasUser(a, a.turn) THEN [res |-> "panic", a |-> a]
    ELSE IF GetUserFromToken(a) # user THEN [res |-> "InvalidPlayer", a |-> a]
    ELSE IF a.completed THEN [res |-> "InvalidGameStage", a |-> a]
    ELSE IF payload \in {"nocolumn", "fullcolumn"}
    THEN [res |-> "InvalidMove", a |-> a]
    ELSE LET placed == [a EXCEPT !.moves = @ + 1]
             win == payload = "wins"
             draw == payload = "draws"
             won == IF win
                    THEN [placed EXCEPT !.winner = Append(@, GetUserFromToken(a))]
                    ELSE placed
             ended == IF win \/ draw
                      THEN [won EXCEPT !.completed = TRUE, !.stage = "Ended"]
                      ELSE [won EXCEPT !.turn = SwitchToken(@)]
         IN [res |-> "none", a |-> NotifierSend(ended)]

\* get_encoded_state unwraps the player of every token on the board and of
\* the turn: the first token is Red's, the second Blue's.
EncodedStatePanics(a) ==
    \/ a.moves >= 1 /\ ~TokenHasUser(a, "Red")
    \/ a.moves >= 2 /\ ~TokenHasUser(a, "Blue")
    \/ a.stage = "InProgress" /\ ~TokenHasUser(a, a.turn)

\* --------------------------------------------------------------- SnakeAdapter
\* SnakeAdapter::new. `alive` are the keys of game.state.players, `pending`
\* the keys of game.moves; `moves` counts the accepted moves.
NewSnakeAdapter ==
    [type |-> "snake", players |-> <<>>, stage |-> "Waiting", alive |-> {},
     pending |-> {}, moves |-> 0, clock |-> INITIAL_CLOCK,
     broadcasts |-> 0]

\* What a move's payload does in the Snake world: it does not parse, or it
\* is recorded and, when it is the last move of the round, time_step removes
\* nobody, the mover, the others, or everybody.
SnakePayloads ==
    {"malformed", "all_survive", "mover_dies", "others_die", "all_die"}

SnakeAddPlayerAsserts(a) ==
    Len(a.players) < SNAKE_NUM_PLAYERS /\ a.stage = "Waiting"

\* An add_player that never starts the game.
SnakeAddPlayerNoStart(a, username) ==
    NotifierSend([a EXCEPT !.players = Append(@, username),
                           !.alive = @ \cup {username}])

SnakeAddPlayer(a, username) ==
    LET pushed == [a EXCEPT !.players = Append(@, username),
                            !.alive = @ \cup {username}] IN
    NotifierSend(IF Len(pushed.players) = SNAKE_NUM_PLAYERS
                 THEN [pushed EXCEPT !.stage = "InProgress"]
                 ELSE pushed)

\* The players time_step removes from game.state.players.
SnakeRemoved(a, user, payload) ==
    CASE payload = "mover_dies" -> {user}
      [] payload = "others_die" -> a.alive \ {user}
      [] payload = "all_die" -> a.alive
      [] OTHER -> {}

\* record_move: the move is kept; when every player alive has one, time_step
\* runs and clears them.
SnakeRecordMove(a, user, payload) ==
    LET kept == [a EXCEPT !.pending = @ \cup {user}, !.moves = @ + 1] IN
    IF Cardinality(kept.pending) = Cardinality(kept.alive)
    THEN [kept EXCEPT !.alive = @ \ SnakeRemoved(a, user, payload),
                      !.pending = {}]
    ELSE kept

\* A play_move that does not look at the stage.
SnakeStageErrorNever(a) == FALSE

\* play_move's first check: the stage is Waiting or Ended.
SnakeStageError(a) == a.stage = "Waiting" \/ a.stage = "Ended"

SnakePlayMove(a, user, payload) ==
    IF SnakeStageError(a)
    THEN [res |-> "InvalidGameStage", a |-> a]
    ELSE IF payload = "malformed" THEN [res |-> "BadPayload", a |-> a]
    ELSE IF user \notin a.alive \/ user \in a.pending
    THEN [res |-> "InvalidPlayer", a |-> a]
    ELSE LET recorded == SnakeRecordMove(a, user, payload)
             staged == IF Cardinality(recorded.alive) <= 1
                       THEN [recorded EXCEPT !.stage = "Ended"]
                       ELSE recorded
         IN [res |-> "none", a |-> NotifierSend(staged)]

\* ----------------------------------------------------- Box<dyn GameAdapter>
\* The registry calls the adapter through the trait object.
AdapterNew(type) == IF type = "snake" THEN NewSnakeAdapter ELSE NewAdapter

AdapterAddPlayerAsserts(a) ==
    IF a.type = "snake" THEN SnakeAddPlayerAsserts(a) ELSE AddPlayerAsserts(a)

AdapterAddPlayer(a, username) ==
    IF a.type = "snake" THEN SnakeAddPlayer(a, username)
    ELSE AddPlayer(a, username)

AdapterPlayMove(a, user, payload) ==
    IF a.type = "snake" THEN SnakePlayMove(a, user, payload)
    ELSE PlayMove(a, user, payload)

AdapterPayloads(a) == IF a.type = "snake" THEN SnakePayloads ELSE Payloads

AdapterEncodedStatePanics(a) ==
    IF a.type = "snake" THEN FALSE ELSE EncodedStatePanics(a)

\* ----------------------------------------------------------------- the map
\* The Game create_game inserts for the adapter its factory makes.
NewGameOf(type, tnow) ==
    [live |-> TRUE, adapter |-> AdapterNew(type),
     sessions |-> [s \in SessionIds |-> NoSession],
     last_update |-> tnow, poisoned |-> FALSE]

NewGame(tnow) == NewGameOf("connect_4", tnow)

Live(g) == games[g].live

\* Threads holding a Ref (a read guard) into shard s: between games.get and
\* the end of the operation, and while list_games iterates the shard.
Readers(s) ==
    {t \in Threads :
        \/ th[t].pc \in {"ref", "locked"} /\ ShardOf(th[t].gid) = s
        \/ th[t].pc = "listIn" /\ th[t].shard = s}

\* The shard's write lock can be taken: no read guard is out. (Write guards
\* are taken and released inside one step of retain or entry.)
ShardWritable(s) == Readers(s) = {}

\* Mutex::try_lock succeeds: nobody holds the guard and it is not poisoned.
TryLockOk(g) == lockHolder[g] = NoThread /\ ~games[g].poisoned

\* A closure that evicts a game already at last_update + TTL = now.
GcRetainStrict(g, tnow) ==
    IF TryLockOk(g) THEN games[g].last_update + TTL > tnow ELSE TRUE

\* The closure gc_games hands to retain: TRUE keeps the entry.
GcRetain(g, tnow) ==
    IF TryLockOk(g) THEN games[g].last_update + TTL >= tnow ELSE TRUE

\* retain on one shard, under its write lock.
RetainShard(s, tnow) ==
    [g \in GameIds |->
        IF Live(g) /\ ShardOf(g) = s /\ ~GcRetain(g, tnow)
        THEN NoGame ELSE games[g]]

\* The least of the games a list_games has yet to visit in its shard.
NextItem(t) == CHOOSE x \in th[t].items : \A y \in th[t].items : x <= y

\* The threads whose guards thread t waits for: the holder of the game's
\* mutex (lock() in an operation and in the closure of list_games), the
\* readers of the shard (the write lock retain takes), the readers of any
\* shard (the write lock entry takes on the shard of the id it drew).
WaitsFor(t) ==
    IF th[t].pc = "ref" THEN {lockHolder[th[t].gid]} \ {NoThread}
    ELSE IF th[t].pc = "listIn" THEN {lockHolder[NextItem(t)]} \ {NoThread}
    ELSE IF th[t].pc = "gc" THEN Readers(th[t].shard)
    ELSE IF th[t].pc = "insert" THEN UNION {Readers(s) : s \in Shards}
    ELSE {}

\* ------------------------------------------------------------- create_game
\* gc_games reads the clock, then retain visits the shards in order.
CreateStart(t) ==
    /\ th[t].pc = "idle"
    /\ th' = [th EXCEPT ![t] =
                [IdleThread EXCEPT !.pc = "gc", !.gcNow = now, !.shard = 0]]
    /\ ret' = NoRet
    /\ UNCHANGED <<games, lockHolder, now>>
    /\ UNCHANGED <<nvars, pvars>>

\* A sweep that neither waits for the shard's read guards nor tries the
\* game's mutex: it evicts by age alone.
GcShardTtlOnly(t) ==
    /\ th[t].pc = "gc"
    /\ games' = [g \in GameIds |->
                   IF /\ Live(g)
                      /\ ShardOf(g) = th[t].shard
                      /\ games[g].last_update + TTL < th[t].gcNow
                   THEN NoGame ELSE games[g]]
    /\ ret' = Returns(t, "retain", th[t].shard, "", 0, "none",
                      Cardinality({g \in GameIds : Live(g) /\ ~games'[g].live}))
    /\ th' = [th EXCEPT ![t] =
                IF th[t].shard = LastShard
                THEN [@ EXCEPT !.pc = "insert", !.shard = 0]
                ELSE [@ EXCEPT !.shard = @ + 1]]
    /\ UNCHANGED <<lockHolder, now>>
    /\ UNCHANGED <<nvars, pvars>>

GcShard(t) ==
    /\ th[t].pc = "gc"
    /\ ShardWritable(th[t].shard)
    /\ games' = RetainShard(th[t].shard, th[t].gcNow)
    /\ ret' = Returns(t, "retain", th[t].shard, "", 0, "none",
                      Cardinality({g \in GameIds : Live(g) /\ ~games'[g].live}))
    /\ th' = [th EXCEPT ![t] =
                IF th[t].shard = LastShard
                THEN [@ EXCEPT !.pc = "insert", !.shard = 0]
                ELSE [@ EXCEPT !.shard = @ + 1]]
    /\ UNCHANGED <<lockHolder, now>>
    /\ UNCHANGED <<nvars, pvars>>

\* An insert that takes every entry for vacant (a plain games.insert).
EntryAlwaysVacant(id) == TRUE

\* games.entry(game_id) is Entry::Vacant.
EntryVacant(id) == ~Live(id)

\* The loop draws ids (from `ids`) until entry() finds one vacant, and
\* inserts under the shard's write lock the game of the adapter the caller's
\* factory makes (one of `types`).
CreateInsertIn(t, ids, types) ==
    /\ th[t].pc = "insert"
    /\ \E id \in ids, type \in types :
         /\ ShardWritable(ShardOf(id))
         /\ EntryVacant(id)
         /\ games' = [games EXCEPT ![id] = NewGameOf(type, now)]
         /\ th' = [th EXCEPT ![t] = IdleThread]
         /\ ret' = Returns(t, "create_game", id, "", 0, "Ok", id)
    /\ UNCHANGED <<lockHolder, now>>
    /\ UNCHANGED <<nvars, pvars>>

CreateInsert(t) == CreateInsertIn(t, GameIds, {"connect_4"})

\* ------------------------------------------- games.get and Mutex::lock
\* receive_join, receive_move, get_state and subscribe start alike: games.get
\* fails with GameNotFound or returns a Ref that lives to the end of the call,
\* then the game's mutex is locked. Which of the four the thread runs, and
\* with which arguments, has no effect before the body: it is drawn there,
\* and a return before the body is reported for all four at once (as an
\* operation named after the call that failed). The caller's id is any of
\* `ids`.
Ops == {"receive_join", "receive_move", "get_state", "subscribe"}

GetIn(t, ids) ==
    /\ th[t].pc = "idle"
    /\ \E g \in ids :
         IF Live(g)
         THEN /\ th' = [th EXCEPT ![t] =
                          [IdleThread EXCEPT !.pc = "ref", !.gid = g]]
              /\ ret' = NoRet
         ELSE /\ th' = th
              /\ ret' = Returns(t, "games.get", g, "", 0, "GameNotFound", 0)
    /\ UNCHANGED <<games, lockHolder, now>>
    /\ UNCHANGED <<nvars, pvars>>

Get(t) == GetIn(t, GameIds)

\* A mutex that is always free to take.
MutexFreeAlways(g) == TRUE

\* One mutex around the whole registry instead of one in each entry.
MutexFreeRegistry(g) == \A x \in GameIds : lockHolder[x] = NoThread

\* No thread holds the MutexGuard of game g.
MutexFree(g) == lockHolder[g] = NoThread

\* mutex.lock().unwrap(): blocks while the guard is out, panics when poisoned.
Lock(t) ==
    /\ th[t].pc = "ref"
    /\ MutexFree(th[t].gid)
    /\ IF games[th[t].gid].poisoned
       THEN /\ th' = [th EXCEPT ![t] = IdleThread]
            /\ ret' = Returns(t, "mutex.lock", th[t].gid, "", 0, "panic", 0)
            /\ UNCHANGED lockHolder
       ELSE /\ th' = [th EXCEPT ![t].pc = "locked"]
            /\ ret' = NoRet
            /\ lockHolder' = [lockHolder EXCEPT ![th[t].gid] = t]
    /\ UNCHANGED <<games, now>>
    /\ UNCHANGED <<nvars, pvars>>

\* A return that leaks the MutexGuard (the game stays locked).
ReleaseKeepingGuard(t, op, g, game, user, sid, res, val) ==
    /\ games' = [games EXCEPT ![g] =
                   IF res = "panic" THEN [game EXCEPT !.poisoned = TRUE] ELSE game]
    /\ lockHolder' = lockHolder
    /\ th' = [th EXCEPT ![t] = IdleThread]
    /\ ret' = Returns(t, op, g, user, sid, res, val)

\* A return that stamps the game's last_update whatever the result is.
ReleaseStamping(t, op, g, game, user, sid, res, val) ==
    /\ games' = [games EXCEPT ![g] =
                   [game EXCEPT !.last_update = now,
                                !.poisoned = @ \/ res = "panic"]]
    /\ lockHolder' = [lockHolder EXCEPT ![g] = NoThread]
    /\ th' = [th EXCEPT ![t] = IdleThread]
    /\ ret' = Returns(t, op, g, user, sid, res, val)

\* The guard and the Ref are dropped when the operation returns; a panic
\* under the guard poisons the mutex.
Release(t, op, g, game, user, sid, res, val) ==
    /\ games' = [games EXCEPT ![g] =
                   IF res = "panic" THEN [game EXCEPT !.poisoned = TRUE] ELSE game]
    /\ lockHolder' = [lockHolder EXCEPT ![g] = NoThread]
    /\ th' = [th EXCEPT ![t] = IdleThread]
    /\ ret' = Returns(t, op, g, user, sid, res, val)

\* -------------------------------------------------------------- receive_join
\* The caller's username is any of `names`.
\* SessionId::new() is drawn until the game has no session of that id. The ids
\* are opaque tokens, only ever compared for equality: the draw is taken to be
\* the least id the game has not bound, any other draw being a renaming of it.
JoinBodyAs(t, names) ==
    /\ th[t].pc = "locked"
    /\ LET g == th[t].gid
           game == games[g]
           a == game.adapter
       IN \E username \in names :
            IF a.stage # "Waiting"
            THEN Release(t, "receive_join", g, game, username, 0, "InvalidGameStage", 0)
            ELSE IF username = ""
            THEN Release(t, "receive_join", g, game, username, 0, "TooShort", 0)
            ELSE IF Len(username) > MAX_USERNAME_LENGTH
            THEN Release(t, "receive_join", g, game, username, 0, "TooLong", 0)
            ELSE IF HasPlayer(a, username)
            THEN Release(t, "receive_join", g, game, username, 0, "AlreadyInGame", 0)
            ELSE IF ~AdapterAddPlayerAsserts(a)
            THEN Release(t, "receive_join", g, game, username, 0, "panic", 0)
            ELSE \E sid \in SessionIds :
                   /\ game.sessions[sid] = NoSession
                   /\ \A other \in SessionIds :
                        other < sid => game.sessions[other] # NoSession
                   /\ Release(t, "receive_join", g,
                              [game EXCEPT !.adapter =
                                               AdapterAddPlayer(a, username),
                                           !.last_update = now,
                                           !.sessions[sid] = username],
                              username, sid, "Ok", sid)
    /\ UNCHANGED now
    /\ UNCHANGED <<nvars, pvars>>

JoinBody(t) == JoinBodyAs(t, Usernames)

\* -------------------------------------------------------------- receive_move
\* A lookup that finds the session in whichever game bound the id.
SessionUserAnyGame(game, sid) ==
    IF game.sessions[sid] # NoSession THEN game.sessions[sid]
    ELSE IF \E g \in GameIds : Live(g) /\ games[g].sessions[sid] # NoSession
    THEN LET g == CHOOSE x \in GameIds :
                     Live(x) /\ games[x].sessions[sid] # NoSession
         IN games[g].sessions[sid]
    ELSE NoSession

\* mutex_guard.sessions.get(&session_id): the username, or NoSession.
SessionUser(game, sid) == game.sessions[sid]

\* The accepted moves are counted up to `budget`.
MoveBodyUpTo(t, budget) ==
    /\ th[t].pc = "locked"
    /\ LET g == th[t].gid
           game == games[g]
       IN \E sid \in SessionIds, payload \in AdapterPayloads(game.adapter) :
            IF SessionUser(game, sid) = NoSession
            THEN Release(t, "receive_move", g, game, "", sid, "SessionNotFound", 0)
            ELSE LET username == SessionUser(game, sid)
                     out == AdapterPlayMove(game.adapter, username, payload)
                 IN IF out.res = "none"
                    THEN /\ game.adapter.moves < budget
                         /\ Release(t, "receive_move", g,
                                    [game EXCEPT !.adapter = out.a,
                                                 !.last_update = now],
                                    username, sid, "Ok", 0)
                    ELSE Release(t, "receive_move", g, game, username, sid, out.res, 0)
    /\ UNCHANGED now
    /\ UNCHANGED <<nvars, pvars>>

MoveBody(t) == MoveBodyUpTo(t, MaxMoves)

\* ----------------------------------------------------------------- get_state
GetStateBody(t) ==
    /\ th[t].pc = "locked"
    /\ LET g == th[t].gid
           game == games[g]
       IN IF AdapterEncodedStatePanics(game.adapter)
          THEN Release(t, "get_state", g, game, "", 0, "panic", 0)
          ELSE Release(t, "get_state", g, game, "", 0, "Ok", Len(game.adapter.players))
    /\ UNCHANGED now
    /\ UNCHANGED <<nvars, pvars>>

\* ----------------------------------------------------------------- subscribe
\* A subscribe that counts as activity on the game.
SubscribeBodyTouch(t) ==
    /\ th[t].pc = "locked"
    /\ LET g == th[t].gid
           game == games[g]
       IN Release(t, "subscribe", g, [game EXCEPT !.last_update = now],
                  "", 0, "Ok", game.adapter.clock)
    /\ UNCHANGED now
    /\ UNCHANGED <<nvars, pvars>>

\* Returns Subscription { receiver, clock: the notifier's clock }.
SubscribeBody(t) ==
    /\ th[t].pc = "locked"
    /\ LET g == th[t].gid
           game == games[g]
       IN Release(t, "subscribe", g, game, "", 0, "Ok", game.adapter.clock)
    /\ UNCHANGED now
    /\ UNCHANGED <<nvars, pvars>>

\* A Subscription that keeps the game's MutexGuard until it is dropped.
SubscribeWaitHolding(t) ==
    /\ th[t].pc = "locked"
    /\ th' = [th EXCEPT ![t] =
                [IdleThread EXCEPT !.pc = "suspended", !.gid = th[t].gid,
                                   !.seen = games[th[t].gid].adapter.clock]]
    /\ ret' = Returns(t, "subscribe", th[t].gid, "", 0, "Ok",
                      games[th[t].gid].adapter.clock)
    /\ UNCHANGED <<games, lockHolder, now>>
    /\ UNCHANGED <<nvars, pvars>>

\* subscribe whose caller then awaits Subscription::wait with a `since` the
\* snapshot does not exceed: the guard and the Ref, temporaries of subscribe's
\* one expression, are dropped before it returns, and the task is suspended
\* holding the Subscription (a Receiver and the snapshot, kept in `seen`).
SubscribeWait(t) ==
    /\ th[t].pc = "locked"
    /\ LET g == th[t].gid IN
         /\ lockHolder' = [lockHolder EXCEPT ![g] = NoThread]
         /\ th' = [th EXCEPT ![t] =
                     [IdleThread EXCEPT !.pc = "suspended", !.gid = g,
                                        !.seen = games[g].adapter.clock]]
         /\ ret' = Returns(t, "subscribe", g, "", 0, "Ok", games[g].adapter.clock)
    /\ UNCHANGED <<games, now>>
    /\ UNCHANGED <<nvars, pvars>>

\* The suspended wait returns: Ok(clk) from the channel or the timer, or the
\* NotifierError (which of them, and when, is the subject of SpecNotify).
WaitReturn(t) ==
    /\ th[t].pc = "suspended"
    /\ \E res \in {"Ok", "NotifierError"} :
         ret' = Returns(t, "wait", th[t].gid, "", 0, res, 0)
    /\ th' = [th EXCEPT ![t] = IdleThread]
    /\ UNCHANGED <<games, lockHolder, now>>
    /\ UNCHANGED <<nvars, pvars>>

\* ---------------------------------------------------------------- list_games
\* SearchEngine::apply rejects page 0 before it pulls from the iterator.
Pages == {0, 1}

ListStart(t) ==
    /\ th[t].pc = "idle"
    /\ \E page \in Pages :
         IF page = 0
         THEN /\ th' = th
              /\ ret' = Returns(t, "list_games", 0, "", 0, "InvalidPage", 0)
         ELSE /\ th' = [th EXCEPT ![t] =
                          [IdleThread EXCEPT !.pc = "list", !.shard = 0]]
              /\ ret' = NoRet
    /\ UNCHANGED <<games, lockHolder, now>>
    /\ UNCHANGED <<nvars, pvars>>

\* After the last entry of a shard: the next shard, or (after the last
\* shard) the page of summaries is returned. `seen` counts the summaries.
ListAdvance(t, r) ==
    IF r.shard = LastShard
    THEN /\ th' = [th EXCEPT ![t] = IdleThread]
         /\ ret' = Returns(t, "list_games", 0, "", 0, "Ok", r.seen)
    ELSE /\ th' = [th EXCEPT ![t] =
                     [r EXCEPT !.pc = "list", !.shard = @ + 1, !.items = {}]]
         /\ ret' = NoRet

\* The iterator takes the read guard of the next shard.
ListEnter(t) ==
    /\ th[t].pc = "list"
    /\ LET s == th[t].shard
           inShard == {g \in GameIds : Live(g) /\ ShardOf(g) = s}
       IN IF inShard = {}
          THEN ListAdvance(t, th[t])
          ELSE /\ th' = [th EXCEPT ![t] =
                           [@ EXCEPT !.pc = "listIn", !.items = inShard]]
               /\ ret' = NoRet
    /\ UNCHANGED <<games, lockHolder, now>>
    /\ UNCHANGED <<nvars, pvars>>

\* The closure of map: lock the game, read its summary, unlock.
ListItem(t) ==
    /\ th[t].pc = "listIn"
    /\ LET g == CHOOSE x \in th[t].items : \A y \in th[t].items : x <= y IN
         /\ lockHolder[g] = NoThread
         /\ IF games[g].poisoned \/ AdapterEncodedStatePanics(games[g].adapter)
            THEN /\ th' = [th EXCEPT ![t] = IdleThread]
                 /\ ret' = Returns(t, "list_games", g, "", 0, "panic", 0)
                 /\ games' = [games EXCEPT ![g].poisoned = TRUE]
            ELSE /\ LET r == [th[t] EXCEPT !.seen = @ + 1, !.items = @ \ {g}]
                    IN IF r.items = {}
                       THEN ListAdvance(t, r)
                       ELSE th' = [th EXCEPT ![t] = r] /\ ret' = NoRet
                 /\ UNCHANGED games
    /\ UNCHANGED <<lockHolder, now>>
    /\ UNCHANGED <<nvars, pvars>>

\* ------------------------------------------------------------ the environment
\* Time passes: one TTL at a time, so that a timestamp is met at its expiry
\* (last_update + TTL = now) and past it.
Tick ==
    /\ now < NumTicks * TTL
    /\ now' = now + TTL
    /\ ret' = NoRet
    /\ UNCHANGED <<games, lockHolder, th>>
    /\ UNCHANGED <<nvars, pvars>>

\* =============================================================== SearchEngine
\* Option<T>: None is the empty set, Some(x) the set {x}.
None == {}
Some(x) == {x}

\* GameType (mod.rs declares the one variant) and Stage, in declaration order:
\* the order Ord::cmp compares them by.
GameTypes == <<"connect_4">>
Stages == <<"Waiting", "InProgress", "Ended">>
Rank(order, x) == CHOOSE i \in 1..Len(order) : order[i] = x

SortKeys == {"GameType", "Players", "Stage", "LastUpdated"}
SortOrders == {"Asc", "Desc"}

\* The summaries the iterator yields, but for their game_id: one or two
\* players, every stage, two instants of last_updated.
SummaryKinds ==
    [game_type : {"connect_4"}, players : {<<"al">>, <<"al", "bo">>},
     stage : {"Waiting", "InProgress", "Ended"}, last_updated : {0, TTL}]

\* The SearchOptions a caller passes.
SearchOptionsSet ==
    [page : {0, 1, 2}, sort_order : SortOrders, sort_key : SortKeys,
     game_type : {None, Some("connect_4")}, players : {None, Some(2)},
     stage : {None, Some("Waiting")}]

NoOptions == [page |-> -1]
NoListing == [ok |-> FALSE, err |-> "not called", items |-> <<>>]

\* A ring that stops at LastUpdated: no wrap to GameType.
NextSortKeyNoWrap(sort_key) ==
    CASE sort_key = "GameType" -> "Players"
      [] sort_key = "Players" -> "Stage"
      [] sort_key = "Stage" -> "LastUpdated"
      [] sort_key = "LastUpdated" -> "LastUpdated"

NextSortKey(sort_key) ==
    CASE sort_key = "GameType" -> "Players"
      [] sort_key = "Players" -> "Stage"
      [] sort_key = "Stage" -> "LastUpdated"
      [] sort_key = "LastUpdated" -> "GameType"

\* Ord::cmp on integers.
Cmp(x, y) == IF x < y THEN "Less" ELSE IF x > y THEN "Greater" ELSE "Equal"

\* Ordering::reverse
Reverse(ordering) ==
    CASE ordering = "Less" -> "Greater"
      [] ordering = "Greater" -> "Less"
      [] ordering = "Equal" -> "Equal"

\* The match on current_sort_key.
KeyCmp(a, b, sort_key) ==
    CASE sort_key = "GameType" ->
           Cmp(Rank(GameTypes, a.game_type), Rank(GameTypes, b.game_type))
      [] sort_key = "Players" -> Cmp(Len(a.players), Len(b.players))
      [] sort_key = "Stage" -> Cmp(Rank(Stages, a.stage), Rank(Stages, b.stage))
      [] sort_key = "LastUpdated" -> Cmp(a.last_updated, b.last_updated)

\* The loop `for _ in 0..4` with n rounds to go.
RECURSIVE CompareLoop(_, _, _, _)
CompareLoop(a, b, current_sort_key, n) ==
    IF n = 0 THEN "Equal"
    ELSE LET ordering == KeyCmp(a, b, current_sort_key) IN
         IF ordering = "Equal"
         THEN CompareLoop(a, b, NextSortKey(current_sort_key), n - 1)
         ELSE ordering

\* A Desc that is not applied to the comparator.
SortOrderIgnored(ordering, sort_order) == ordering

\* if sort_order == Asc { ordering } else { ordering.reverse() }
ApplySortOrder(ordering, sort_order) ==
    IF sort_order = "Asc" THEN ordering ELSE Reverse(ordering)

CompareSummaries(a, b, sort_key, sort_order) ==
    ApplySortOrder(CompareLoop(a, b, sort_key, Cardinality(SortKeys)),
                   sort_order)

\* Itertools::sorted_by collects and calls the stable slice::sort_by: x, which
\* came after every element of `sorted`, goes before the first that compares
\* Greater than it.
InsertSorted(sorted, x, sort_key, sort_order) ==
    LET greater == {i \in 1..Len(sorted) :
                      CompareSummaries(sorted[i], x, sort_key, sort_order)
                        = "Greater"}
        at == IF greater = {} THEN Len(sorted) + 1
              ELSE CHOOSE i \in greater : \A j \in greater : i <= j
    IN SubSeq(sorted, 1, at - 1) \o <<x>> \o SubSeq(sorted, at, Len(sorted))

RECURSIVE SortedBy(_, _, _)
SortedBy(summaries, sort_key, sort_order) ==
    IF summaries = <<>> THEN <<>>
    ELSE InsertSorted(SortedBy(SubSeq(summaries, 1, Len(summaries) - 1),
                               sort_key, sort_order),
                      summaries[Len(summaries)], sort_key, sort_order)

\* Iterator::skip(n) and Iterator::take(n)
Skip(seq, n) == IF n >= Len(seq) THEN <<>> ELSE SubSeq(seq, n + 1, Len(seq))
Take(seq, n) == IF n >= Len(seq) THEN seq ELSE SubSeq(seq, 1, n)

\* The three filters.
Matches(s, options) ==
    /\ \A x \in options.game_type : s.game_type = x
    /\ \A x \in options.players : Len(s.players) = x
    /\ \A x \in options.stage : s.stage = x

\* A check that also rejects page one.
PageInvalidBelowTwo(page) == page < 2

\* if page == 0
PageInvalid(page) == page = 0

\* A pipeline that filters the whole sorted sequence and then cuts the page.
PageOfFilterFirst(sorted, options) ==
    LET Keep(s) == Matches(s, options) IN
    Take(Skip(SelectSeq(sorted, Keep),
              (options.page - 1) * LIST_GAME_SUMMARY_COUNT),
         LIST_GAME_SUMMARY_COUNT)

\* .skip(skip).filter(..).filter(..).filter(..).take(LIST_GAME_SUMMARY_COUNT)
PageOf(sorted, options) ==
    LET Keep(s) == Matches(s, options) IN
    Take(SelectSeq(Skip(sorted, (options.page - 1) * LIST_GAME_SUMMARY_COUNT),
                   Keep),
         LIST_GAME_SUMMARY_COUNT)

\* SearchEngine::apply
Apply(summaries, options) ==
    IF PageInvalid(options.page)
    THEN [ok |-> FALSE, err |-> "InvalidPage", items |-> <<>>]
    ELSE [ok |-> TRUE, err |-> "none",
          items |-> PageOf(SortedBy(summaries, options.sort_key,
                                    options.sort_order), options)]

SearchInit ==
    search = [summaries |-> <<>>, options |-> NoOptions, listing |-> NoListing]

\* The summary the iterator yields next, of game id `id`.
Summary(kind, id) ==
    [game_id |-> id, game_type |-> kind.game_type, players |-> kind.players,
     stage |-> kind.stage, last_updated |-> kind.last_updated]

\* The iterator yields one more summary: up to MaxSummaries of them, or
\* MaxTail after a full page of like ones.
PushSummary ==
    /\ search.listing = NoListing
    /\ \/ Len(search.summaries) < MaxSummaries
       \/ /\ Len(search.summaries) >= LIST_GAME_SUMMARY_COUNT
          /\ Len(search.summaries) < LIST_GAME_SUMMARY_COUNT + MaxTail
    /\ \E kind \in SummaryKinds :
         search' = [search EXCEPT !.summaries =
                      Append(@, Summary(kind, Len(search.summaries) + 1))]
    /\ UNCHANGED <<nvars, rvars, ident, c4>>

\* The summaries a full page is made of: new games, or games under way.
PageKinds ==
    {[game_type |-> "connect_4", players |-> <<"al">>, stage |-> "Waiting",
      last_updated |-> 0],
     [game_type |-> "connect_4", players |-> <<"al", "bo">>,
      stage |-> "InProgress", last_updated |-> TTL]}

\* The iterator starts with a full page of summaries alike but for their id.
PushPage ==
    /\ search.listing = NoListing
    /\ search.summaries = <<>>
    /\ \E kind \in PageKinds :
         search' = [search EXCEPT !.summaries =
                      [i \in 1..LIST_GAME_SUMMARY_COUNT |-> Summary(kind, i)]]
    /\ UNCHANGED <<nvars, rvars, ident, c4>>

\* The call.
SearchApply ==
    /\ search.listing = NoListing
    /\ \E options \in SearchOptionsSet :
         search' = [search EXCEPT !.options = options,
                                  !.listing = Apply(search.summaries, options)]
    /\ UNCHANGED <<nvars, rvars, ident, c4>>

SearchNext == PushSummary \/ PushPage \/ SearchApply

\* ================================================================ identifiers
\* An identifier is its bytes; a text is the prefix it starts with (any of
\* Prefixes) and the characters after it, each the 5-bit value it has in the
\* RFC 4648 alphabet A-Z2-7, or NotInAlphabet.
NotInAlphabet == 32
Prefixes == {"game_", "session_", "game", ""}
IdKinds == {"GameId", "SessionId"}

\* struct GameId([u8; 4]), struct SessionId([u8; 16])
Width(kind) == IF kind = "GameId" THEN GAME_ID_BYTES ELSE SESSION_ID_BYTES
\* #[display(fmt = "game_{}")], #[display(fmt = "session_{}")]
Prefix(kind) == IF kind = "GameId" THEN "game_" ELSE "session_"

\* The bytes rand::thread_rng().gen() is taken to draw: all zero, all one
\* bits, and two mixed patterns.
ByteValues == {0, 255, 165, 60}

\* The ids: any 4 bytes; 16 bytes that repeat a group of 4, the last two
\* (which end the third group of five and begin the fourth) being free.
IdsOf(kind) ==
    IF kind = "GameId"
    THEN [1..GAME_ID_BYTES -> ByteValues]
    ELSE {[i \in 1..SESSION_ID_BYTES |->
             IF i = SESSION_ID_BYTES - 1 THEN y
             ELSE IF i = SESSION_ID_BYTES THEN z
             ELSE p[((i - 1) % 2) + 1]] :
          p \in [1..2 -> ByteValues], y \in ByteValues, z \in ByteValues}

\* base32::encode with Alphabet::RFC4648 { padding: false }: each group of
\* five bytes (the last one filled with zeros) gives eight characters, and
\* the characters that hold no bit of the data are cut off.
EncodeSymbol(b, k) ==
    CASE k = 0 -> b[1] \div 8
      [] k = 1 -> (b[1] % 8) * 4 + b[2] \div 64
      [] k = 2 -> (b[2] % 64) \div 2
      [] k = 3 -> (b[2] % 2) * 16 + b[3] \div 16
      [] k = 4 -> (b[3] % 16) * 2 + b[4] \div 128
      [] k = 5 -> (b[4] % 128) \div 4
      [] k = 6 -> (b[4] % 4) * 8 + b[5] \div 32
      [] k = 7 -> b[5] % 32

\* An encoder that keeps the characters of the zero filling.
EncodeKeepsFilling(bytes) ==
    LET n == Len(bytes)
        Chunk(c) == [i \in 1..5 |->
                       IF 5 * (c - 1) + i <= n THEN bytes[5 * (c - 1) + i] ELSE 0]
    IN [j \in 1..(8 * ((n + 4) \div 5)) |->
          EncodeSymbol(Chunk(((j - 1) \div 8) + 1), (j - 1) % 8)]

Encode(bytes) ==
    LET n == Len(bytes)
        Chunk(c) == [i \in 1..5 |->
                       IF 5 * (c - 1) + i <= n THEN bytes[5 * (c - 1) + i] ELSE 0]
        all == [j \in 1..(8 * ((n + 4) \div 5)) |->
                  EncodeSymbol(Chunk(((j - 1) \div 8) + 1), (j - 1) % 8)]
        num_extra == IF n % 5 = 0 THEN 0 ELSE 8 - ((n % 5) * 8 + 4) \div 5
    IN SubSeq(all, 1, Len(all) - num_extra)

\* base32::decode: None (here <<-1>>) when a character is not in the alphabet;
\* else each group of eight characters (the last one filled with zeros) gives
\* five bytes, cut to len * 5 / 8 bytes.
DecodeByte(s, k) ==
    CASE k = 0 -> s[1] * 8 + s[2] \div 4
      [] k = 1 -> (s[2] % 4) * 64 + s[3] * 2 + s[4] \div 16
      [] k = 2 -> (s[4] % 16) * 16 + s[5] \div 2
      [] k = 3 -> (s[5] % 2) * 128 + s[6] * 4 + s[7] \div 8
      [] k = 4 -> (s[7] % 8) * 32 + s[8]

DecodeNone == <<-1>>

Decode(data) ==
    LET n == Len(data)
        Chunk(c) == [i \in 1..8 |->
                       IF 8 * (c - 1) + i <= n THEN data[8 * (c - 1) + i] ELSE 0]
        all == [j \in 1..(5 * ((n + 7) \div 8)) |->
                  DecodeByte(Chunk(((j - 1) \div 5) + 1), (j - 1) % 5)]
    IN IF \E i \in 1..n : data[i] = NotInAlphabet
       THEN DecodeNone
       ELSE SubSeq(all, 1, (n * 5) \div 8)

\* impl Display: the prefix and encode_id of the bytes.
DisplayOf(kind, bytes) == [prefix |-> Prefix(kind), body |-> Encode(bytes)]

\* id.starts_with(prefix)
StartsWith(text, prefix) == text.prefix = prefix

IdErr == [ok |-> FALSE, id |-> <<>>]
IdOk(bytes) == [ok |-> TRUE, id |-> bytes]
NotParsed == [ok |-> FALSE, id |-> <<-1>>]

\* validate_id, then try_into the array of the kind's width (visit_str).
Parse(kind, text) ==
    IF ~StartsWith(text, Prefix(kind)) THEN IdErr
    ELSE LET vec == Decode(text.body) IN
         IF vec = DecodeNone THEN IdErr
         ELSE IF Len(vec) # Width(kind) THEN IdErr
         ELSE IdOk(vec)

\* Texts a caller may send instead of the one Display gave: with another
\* prefix, a character less or more, a character outside the alphabet, other
\* bits in the part of the last character that holds no data.
Tamperings ==
    {"other_prefix", "half_prefix", "no_prefix", "shorter", "longer",
     "bad_character", "spare_bits"}

Tampered(text, how) ==
    CASE how = "other_prefix" ->
           [text EXCEPT !.prefix = IF @ = "game_" THEN "session_" ELSE "game_"]
      [] how = "half_prefix" -> [text EXCEPT !.prefix = "game"]
      [] how = "no_prefix" -> [text EXCEPT !.prefix = ""]
      [] how = "shorter" ->
           [text EXCEPT !.body = SubSeq(@, 1, Len(@) - 1)]
      [] how = "longer" -> [text EXCEPT !.body = Append(@, 0)]
      [] how = "bad_character" -> [text EXCEPT !.body[1] = NotInAlphabet]
      [] how = "spare_bits" ->
           [text EXCEPT !.body[Len(text.body)] =
                            IF @ % 2 = 0 THEN @ + 1 ELSE @ - 1]

NoIdent ==
    [kind |-> "none", id |-> <<>>, text |-> [prefix |-> "", body |-> <<>>],
     tampering |-> "none", parsed |-> NotParsed]

IdentInit == ident = NoIdent

\* GameId::new() or SessionId::new(), and its Display.
IdNew ==
    /\ ident = NoIdent
    /\ \E kind \in IdKinds : \E bytes \in IdsOf(kind) :
         ident' = [NoIdent EXCEPT !.kind = kind, !.id = bytes,
                                 !.text = DisplayOf(kind, bytes)]
    /\ UNCHANGED <<nvars, rvars, search, c4>>

\* The text reaches the server changed.
IdTamper ==
    /\ ident.kind \in IdKinds
    /\ ident.tampering = "none"
    /\ ident.parsed = NotParsed
    /\ \E how \in Tamperings :
         ident' = [ident EXCEPT !.tampering = how,
                                !.text = Tampered(ident.text, how)]
    /\ UNCHANGED <<nvars, rvars, search, c4>>

\* Deserialize of the kind the request expects.
IdParse ==
    /\ ident.kind \in IdKinds
    /\ ident.parsed = NotParsed
    /\ ident' = [ident EXCEPT !.parsed = Parse(ident.kind, ident.text)]
    /\ UNCHANGED <<nvars, rvars, search, c4>>

IdentNext == IdNew \/ IdTamper \/ IdParse

\* ============================================================ Connect4 board
\* board is a vector of columns 0..COL_SIZE-1, each the tokens dropped into
\* it, lowest first: board[c + 1][r + 1] is the cell of column c and row r.
EmptyBoard == [c \in 1..COL_SIZE |-> <<>>]

\* get_cell_at: None outside the board and above the column's tokens.
GetCellAt(board, row, col) ==
    IF row < 0 \/ col < 0 \/ row >= ROW_SIZE \/ col >= COL_SIZE THEN "None"
    ELSE IF row < Len(board[col + 1]) THEN board[col + 1][row + 1]
    ELSE "None"

\* insert_move_if_legal: the error it returns ("none": Ok) and the board.
InsertMoveIfLegal(board, turn, column) ==
    IF column >= COL_SIZE THEN [res |-> "InvalidMove", board |-> board]
    ELSE IF Len(board[column + 1]) >= ROW_SIZE
    THEN [res |-> "InvalidMove", board |-> board]
    ELSE [res |-> "none",
          board |-> [board EXCEPT ![column + 1] = Append(@, turn)]]

\* Down, Left, Right, LU, RD, LD, RU
direction_col == <<0, -1, 1, -1, 1, -1, 1>>
direction_row == <<-1, 0, 0, 1, -1, -1, 1>>

\* The while loop of winning_move: the cells of the turn's colour from
\* (row, col) on in one direction.
RECURSIVE RunLength(_, _, _, _, _)
RunLength(board, turn, row, col, counter) ==
    IF GetCellAt(board, row, col) = turn
    THEN 1 + RunLength(board, turn, row + direction_row[counter],
                       col + direction_col[counter], counter)
    ELSE 0

\* A test of a pair of opposite directions that forgets that both lengths
\* count the token just placed.
PairWinsAtFour(a, b) == a + b >= CONNECT_FOUR

\* lengths[2 * pair + 1] + lengths[2 * pair + 2] > CONNECT_FOUR
PairWins(a, b) == a + b > CONNECT_FOUR

\* winning_move, called after a token was placed on top of `column`.
WinningMove(board, turn, column) ==
    IF column >= COL_SIZE THEN FALSE
    ELSE LET row == Len(board[column + 1]) - 1
             lengths == [counter \in 1..7 |->
                           RunLength(board, turn, row, column, counter)]
         IN \/ lengths[1] >= CONNECT_FOUR
            \/ \E pair \in 0..2 :
                  PairWins(lengths[2 * pair + 2], lengths[2 * pair + 3])

\* The columns of the moves the four tests of winning_move make, Red first.
TestMoves ==
    {<<0, 3, 0, 2, 0, 1, 0>>,
     <<3, 3, 2, 0, 1, 1, 4>>,
     <<2, 3, 1, 2, 1, 1, 0, 0, 0, 0>>,
     <<2, 3, 3, 4, 4, 5, 4, 5, 0, 5, 5>>}

\* The positions the exploration starts from: the empty board, and each
\* test's moves but for the last ones.
Openings ==
    {<<>>} \cup {SubSeq(moves, 1, Len(moves) - (MaxTokens - 1)) :
                    moves \in TestMoves}

TurnAfter(moves) == IF Len(moves) % 2 = 0 THEN "Red" ELSE "Blue"

\* insert_move_if_legal and switch_token for each move.
RECURSIVE BoardAfter(_)
BoardAfter(moves) ==
    IF moves = <<>> THEN EmptyBoard
    ELSE LET before == SubSeq(moves, 1, Len(moves) - 1) IN
         InsertMoveIfLegal(BoardAfter(before), TurnAfter(before),
                           moves[Len(moves)]).board

NoMove == [column |-> -1, res |-> "none", win |-> FALSE]

\* Connect4 as Connect4Adapter::new makes it.
NewConnect4 ==
    [board |-> EmptyBoard, turn |-> "Red", opened |-> FALSE, tokens |-> 0,
     last |-> NoMove]

Connect4Init == c4 = NewConnect4

\* The game has come to one of the openings.
PlayOpening ==
    /\ ~c4.opened
    /\ \E moves \in Openings :
         c4' = [c4 EXCEPT !.board = BoardAfter(moves),
                          !.turn = TurnAfter(moves),
                          !.opened = TRUE]
    /\ UNCHANGED <<nvars, rvars, search, ident>>

\* self.game.moves(column)? and winning_move(column), as play_move and the
\* tests call them: a token of the turn's colour into any column, 0 to
\* COL_SIZE (which is none).
InsertAndTest ==
    /\ c4.opened
    /\ c4.tokens < MaxTokens
    /\ \E column \in 0..COL_SIZE :
         LET out == InsertMoveIfLegal(c4.board, c4.turn, column) IN
         c4' = [c4 EXCEPT
                  !.board = out.board,
                  !.tokens = IF out.res = "none" THEN @ + 1 ELSE @,
                  !.last = [column |-> column, res |-> out.res,
                            win |-> IF out.res = "none" \/ column >= COL_SIZE
                                    THEN WinningMove(out.board, c4.turn, column)
                                    ELSE FALSE]]
    /\ UNCHANGED <<nvars, rvars, search, ident>>

\* switch_token
SwitchTurn ==
    /\ c4.opened
    /\ c4.last # NoMove
    /\ c4' = [c4 EXCEPT !.turn = SwitchToken(@), !.last = NoMove]
    /\ UNCHANGED <<nvars, rvars, search, ident>>

Connect4Next == PlayOpening \/ InsertAndTest \/ SwitchTurn

\* ------------------------------------------------------------ specification
RegistryInit ==
    /\ games = [g \in GameIds |-> NoGame]
    /\ lockHolder = [g \in GameIds |-> NoThread]
    /\ now = 0
    /\ th = [t \in Threads |-> IdleThread]
    /\ ret = NoRet

NotifyInit ==
    /\ clock = INITIAL_CLOCK
    /\ closed = FALSE
    /\ sent = <<>>
    /\ sendPc = "idle"
    /\ sendVal = 0
    /\ nsends = 0
    /\ sub = [w \in Subs |-> NoSub]

NotifyNext ==
    \/ SendFetch
    \/ SendBroadcast
    \/ DropNotifier
    \/ \E w \in Subs : SubscribeFirst(w)
    \/ \E w \in Subs : SubscribeSecond(w)
    \/ \E w \in Subs : WaitCall(w)
    \/ \E w \in Subs : WaitRecv(w)
    \/ \E w \in Subs : WaitTimeout(w)
    \/ \E w \in Subs : DropSubscription(w)

Init ==
    NotifyInit /\ RegistryInit /\ SearchInit /\ IdentInit /\ Connect4Init

SpecNotify == Init /\ [][NotifyNext]_vars

\* The tokio timer fires and the runtime polls a woken task.
FairNotify ==
    SpecNotify /\ \A w \in Subs :
        WF_vars(WaitRecv(w) \/ WaitTimeout(w))

Next ==
    \/ Tick
    \/ \E t \in Threads : CreateStart(t)
    \/ \E t \in Threads : GcShard(t)
    \/ \E t \in Threads : CreateInsert(t)
    \/ \E t \in Threads : Get(t)
    \/ \E t \in Threads : Lock(t)
    \/ \E t \in Threads : JoinBody(t)
    \/ \E t \in Threads : MoveBody(t)
    \/ \E t \in Threads : GetStateBody(t)
    \/ \E t \in Threads : SubscribeBody(t)
    \/ \E t \in Threads : ListStart(t)
    \/ \E t \in Threads : ListEnter(t)
    \/ \E t \in Threads : ListItem(t)

Spec == Init /\ [][Next]_vars

\* The one username of the callers where only the locks matter.
OneUsername == {"al"}

\* The step a thread takes under the guard of the game: the body of the
\* operation it runs.
Body(t) ==
    \/ JoinBodyAs(t, OneUsername)
    \/ MoveBody(t)
    \/ GetStateBody(t)
    \/ SubscribeBody(t)

\* The steps of a thread inside an operation: the body under the game's
\* guard, the iterator's step to the next shard, and the steps that take a
\* lock (the game's mutex in lock() and in the closure of list_games, the
\* shard's write lock in retain and in entry).
Continue(t) ==
    \/ Body(t)
    \/ ListEnter(t)
    \/ Lock(t)
    \/ ListItem(t)
    \/ GcShard(t)
    \/ CreateInsert(t)

\* The operations of Spec, every caller of receive_join under one username.
FairNext ==
    \/ Tick
    \/ \E t \in Threads : CreateStart(t)
    \/ \E t \in Threads : Get(t)
    \/ \E t \in Threads : ListStart(t)
    \/ \E t \in Threads : Continue(t)

\* The registry under a fair scheduler: a thread inside an operation that
\* can take its next step again and again does take it. (A thread that can
\* run all the time runs; a thread that waits for a lock gets it when the
\* lock is free again and again.)
FairSpec ==
    Init /\ [][FairNext]_vars /\ \A t \in Threads : SF_vars(Continue(t))

\* The same operations on a registry of one game id, with accepted moves.
GameNext ==
    \/ Tick
    \/ \E t \in Threads : CreateStart(t)
    \/ \E t \in Threads : GcShard(t)
    \/ \E t \in Threads : CreateInsertIn(t, OneGame, {"connect_4"})
    \/ \E t \in Threads : GetIn(t, OneGame)
    \/ \E t \in Threads : Lock(t)
    \/ \E t \in Threads : JoinBody(t)
    \/ \E t \in Threads : MoveBodyUpTo(t, MaxMovesGame)
    \/ \E t \in Threads : GetStateBody(t)
    \/ \E t \in Threads : SubscribeBody(t)
    \/ \E t \in Threads : ListStart(t)
    \/ \E t \in Threads : ListEnter(t)
    \/ \E t \in Threads : ListItem(t)

SpecGame == Init /\ [][GameNext]_vars

\* A registry of one game id whose factory makes a Connect4Adapter or a
\* SnakeAdapter.
AdapterNext ==
    \/ \E t \in Threads : CreateStart(t)
    \/ \E t \in Threads : GcShard(t)
    \/ \E t \in Threads : CreateInsertIn(t, OneGame, {"connect_4", "snake"})
    \/ \E t \in Threads : GetIn(t, OneGame)
    \/ \E t \in Threads : Lock(t)
    \/ \E t \in Threads : JoinBodyAs(t, SnakeUsernames)
    \/ \E t \in Threads : MoveBodyUpTo(t, MaxMovesAdapter)
    \/ \E t \in Threads : GetStateBody(t)
    \/ \E t \in Threads : SubscribeBody(t)

SpecAdapter == Init /\ [][AdapterNext]_vars

\* SpecGame with callers of subscribe that go on to wait for an update.
WaitNext ==
    \/ GameNext
    \/ \E t \in Threads : SubscribeWait(t)
    \/ \E t \in Threads : WaitReturn(t)

SpecWait == Init /\ [][WaitNext]_vars

\* One call of the search engine on any summaries.
SpecSearch == Init /\ [][SearchNext]_vars

\* One identifier written out and read back.
SpecIdent == Init /\ [][IdentNext]_vars

\* Tokens dropped into one Connect4 board, each followed by winning_move.
SpecBoard == Init /\ [][Connect4Next]_vars

\* ==================================================================== claims

\* C1 (stated as claimed; the code violates it): a wait(C) on a subscription
\* whose snapshot is C, after at least one whole send() that followed the
\* subscribe, returns Ok(v) with v > C.
C1_NoLostWakeup ==
    \A w \in Subs :
        (sub[w].pc = "done" /\ sub[w].since = sub[w].clock /\ sub[w].hadSend)
            => (sub[w].result.ok /\ sub[w].result.val > sub[w].clock)

\* C2 (stated as claimed; the code violates it): the value the k-th send()
\* hands to the channel is the post-increment clock, 1 + k.
C2_SendCarriesNewClock ==
    sendPc = "fetched" => (sendVal = INITIAL_CLOCK + nsends /\ sendVal = clock)

\* C3: a send() racing with a subscribe() is in the snapshot or is stored for
\* the receiver; no subscription misses a send both ways.
C3_SendReflectedOrDelivered ==
    \A w \in Subs : ~sub[w].missed

\* C3 witness: a send between its fetch_add and its broadcast while a
\* subscribe is between its two field evaluations, and that subscribe done.
C3_Witness ==
    \E w \in Subs :
        /\ sub[w].pc = "ready"
        /\ sub[w].clock > INITIAL_CLOCK
        /\ sub[w].regPos = 0
        /\ Len(sent) = 1
        /\ nsends = 1

\* C4: wait(since) with since below the snapshot returns Ok(snapshot) at the
\* call, leaving the receiver cursor and the channel as they were.
C4_ImmediateReturn ==
    [][\A w \in Subs :
         (sub[w].pc = "ready" /\ sub'[w].pc # "ready"
            /\ sub'[w].since < sub[w].clock)
         => /\ sub'[w].pc = "done"
            /\ sub'[w].result = Ok(sub[w].clock)
            /\ sub'[w].next = sub[w].next
            /\ sent' = sent]_vars

\* C4 witness: an immediate return while a broadcast value sits unread.
C4_Witness ==
    \E w \in Subs :
        /\ sub[w].pc = "done"
        /\ sub[w].via = "immediate"
        /\ sub[w].since < sub[w].clock
        /\ sub[w].next < Len(sent)

\* C5 (stated as claimed; the code violates it): a wait(since) with since at or
\* above the snapshot that a broadcast ended returns a value above since.
C5_RecvAboveSince ==
    \A w \in Subs :
        (sub[w].pc = "done" /\ sub[w].via = "recv" /\ sub[w].since >= sub[w].clock)
            => (sub[w].result.ok /\ sub[w].result.val > sub[w].since)

\* C6: a wait ended by the timeout returns Ok(snapshot), and every suspended
\* wait returns.
C6_TimeoutReturnsSnapshot ==
    /\ [](\A w \in Subs :
            sub[w].via = "timeout" => sub[w].result = Ok(sub[w].clock))
    /\ \A w \in Subs : (sub[w].pc = "waiting") ~> (sub[w].pc = "done")

\* C6 witness: a wait that suspended and was ended by the timeout.
C6_Witness ==
    \E w \in Subs :
        /\ sub[w].pc = "done"
        /\ sub[w].via = "timeout"
        /\ sub[w].since >= sub[w].clock

\* C7 (stated as claimed; the code violates it): on a live notifier a wait
\* returns a clock value, never the notification error, however many sends
\* came between subscribe and wait.
C7_NoErrorOnLiveNotifier ==
    \A w \in Subs :
        (sub[w].pc = "done" /\ sub[w].openAtReturn) => sub[w].result.ok

\* C8: a wait suspended with nothing to read when its game is evicted and the
\* Notifier dropped returns the notification error, not a clock value.
C8_DroppedNotifierIsError ==
    \A w \in Subs :
        (sub[w].pc = "done" /\ sub[w].dropSeen)
            => (sub[w].result = Err /\ sub[w].via = "closed")

\* C8 witness: a wait that was suspended at the drop and has returned.
C8_Witness ==
    \E w \in Subs :
        /\ sub[w].pc = "done"
        /\ sub[w].dropSeen
        /\ closed
        /\ sub[w].next = Len(sent)

\* C9: in every interleaving of a sweep with an operation in flight on a game
\* (it holds the game's mutex, or the map reference it locks it through), no
\* step removes that game from the registry, however old its last_update is.
C9_LockedGameNotEvicted ==
    [][/\ \A g \in GameIds :
           (Live(g) /\ lockHolder[g] # NoThread) => games'[g].live
       /\ \A t \in Threads :
           th[t].pc \in {"ref", "locked"} => games'[th[t].gid].live
       /\ \A t \in Threads :
           th[t].pc = "listIn" => \A g \in th[t].items : games'[g].live]_vars

\* A sweep has visited a shard and stands at the next one, whose game is
\* locked by an operation in flight and older than the TTL.
C9_Witness ==
    \E t \in Threads, g \in GameIds :
        /\ th[t].pc = "gc"
        /\ th[t].shard = ShardOf(g)
        /\ th[t].shard > 0
        /\ Live(g)
        /\ lockHolder[g] \in Threads \ {t}
        /\ games[g].last_update + TTL < th[t].gcNow

\* C10: a step removes a game exactly when it is a sweep's visit of the
\* game's shard, the game's mutex is free and last_update + TTL < now (the
\* now the sweep read); a visit leaves every other game as it was, so a game
\* with last_update + TTL >= now stays. An id that is not in the registry
\* gives GameNotFound, and only such an id does; it comes back only by
\* create_game.
C10_SweepEvictsExactlyExpired ==
    [][/\ \A g \in GameIds :
           Live(g) =>
             /\ ~games'[g].live <=>
                  \E t \in Threads :
                     /\ th[t].pc = "gc"
                     /\ th'[t] # th[t]
                     /\ th[t].shard = ShardOf(g)
                     /\ lockHolder[g] = NoThread
                     /\ games[g].last_update + TTL < th[t].gcNow
             /\ (\E t \in Threads : th[t].pc = "gc" /\ th'[t] # th[t])
                  => (games'[g].live => games'[g] = games[g])
       /\ ret'.op \in Ops \cup {"games.get", "mutex.lock"}
            => (ret'.res = "GameNotFound" <=> ~Live(ret'.gid))
       /\ \A g \in GameIds :
           (~Live(g) /\ games'[g].live)
             => (ret'.op = "create_game" /\ ret'.gid = g)]_vars

\* A visit has just removed a game, while the other game, whose shard the
\* sweep visited before, is still there at last_update + TTL = now.
C10_Witness ==
    \E t \in Threads, g \in GameIds :
        /\ ret.op = "retain"
        /\ ret.t = t
        /\ ret.val = 1
        /\ ret.gid > 0
        /\ Live(g)
        /\ ShardOf(g) < ret.gid
        /\ games[g].last_update + TTL = th[t].gcNow

\* C11 (stated as claimed; the code violates it): a sweep never waits on a
\* lock, so whenever a thread stands in gc_games its next visit of retain can
\* run at once, whatever operations are in flight.
C11_SweepNeverWaits ==
    \A t \in Threads :
        th[t].pc = "gc" => ShardWritable(th[t].shard)

\* C12: create_game inserts only if absent. The step in which a create_game
\* returns id g finds g absent from the registry, puts a fresh game under g
\* and leaves every game that was in the registry as it was (adapter,
\* sessions, last_update); so two calls cannot both hold the same id for live
\* games, in any interleaving of concurrent creators.
C12_CreateInsertIfAbsent ==
    [][\A t \in Threads :
          (th[t].pc = "insert" /\ th'[t] # th[t]) =>
             /\ ret'.op = "create_game"
             /\ ret'.t = t
             /\ ~Live(ret'.gid)
             /\ games'[ret'.gid] = NewGame(now)
             /\ \A g \in GameIds : Live(g) => games'[g] = games[g]]_vars

\* Two creators race: one has just returned its id while the other stands at
\* its own insert, and the registry holds an older game with a player.
C12_Witness ==
    \E t \in Threads, g \in GameIds :
        /\ ret.op = "create_game"
        /\ ret.t # t
        /\ th[t].pc = "insert"
        /\ g # ret.gid
        /\ Live(g)
        /\ Len(games[g].adapter.players) > 0

\* C13 (stated as claimed; the code violates it): a join attempt with the
\* username of the player admitted last to the game fails with AlreadyInGame.
C13_SecondJoinAlreadyInGame ==
    [][\A g \in GameIds :
          (/\ ret'.op = "receive_join"
           /\ ret'.gid = g
           /\ Live(g)
           /\ Len(games[g].adapter.players) > 0
           /\ ret'.user = games[g].adapter.players[Len(games[g].adapter.players)])
          => ret'.res = "AlreadyInGame"]_vars

\* C13 (amended): a join attempt with a username already admitted to the game
\* never succeeds: it fails with AlreadyInGame while the game is Waiting and
\* with InvalidGameStage once it is not; and the usernames admitted to one
\* game are pairwise distinct after every step, racing joins included.
C13_JoinExclusive ==
    [][\A g \in GameIds :
          /\ (/\ ret'.op = "receive_join"
              /\ ret'.gid = g
              /\ Live(g)
              /\ \E i \in 1..Len(games[g].adapter.players) :
                    games[g].adapter.players[i] = ret'.user)
             => /\ ret'.res = (IF games[g].adapter.stage = "Waiting"
                               THEN "AlreadyInGame" ELSE "InvalidGameStage")
                /\ games'[g] = games[g]
          /\ games'[g].live =>
               \A i, j \in 1..Len(games'[g].adapter.players) :
                  i # j => games'[g].adapter.players[i]
                             # games'[g].adapter.players[j]]_vars

\* A join with an admitted username has just failed with AlreadyInGame while
\* another request on the same game is past games.get and waits its turn.
C13_Witness ==
    \E t \in Threads :
        /\ ret.op = "receive_join"
        /\ ret.res = "AlreadyInGame"
        /\ ret.t # t
        /\ th[t].pc = "ref"
        /\ th[t].gid = ret.gid
        /\ games[ret.gid].adapter.players = <<ret.user>>

\* C14: joins succeed for exactly the adapter's capacity (2 for Connect4, 4
\* for Snake). A join is accepted only while the game is Waiting and below
\* capacity, and then a fresh valid username is accepted; the stage is
\* Waiting as long as a slot is free and leaves Waiting with the join that
\* fills the last slot; every join after that, whatever its username, fails
\* with InvalidGameStage; the players never exceed the capacity.
C14_JoinsUpToCapacity ==
    [][\A g \in GameIds :
          LET a == games[g].adapter
              b == games'[g].adapter
              capacity == IF b.type = "snake" THEN 4 ELSE 2
          IN /\ (ret'.op = "receive_join" /\ ret'.gid = g /\ Live(g)) =>
                  /\ a.stage # "Waiting" => ret'.res = "InvalidGameStage"
                  /\ ret'.res = "Ok" <=>
                       /\ a.stage = "Waiting"
                       /\ Len(a.players) < capacity
                       /\ ret'.user # ""
                       /\ Len(ret'.user) <= 12
                       /\ \A i \in 1..Len(a.players) : a.players[i] # ret'.user
                  /\ ret'.res = "Ok" =>
                       /\ b.players = Append(a.players, ret'.user)
                       /\ b.stage = IF Len(b.players) = capacity
                                    THEN "InProgress" ELSE "Waiting"
                  /\ ret'.res # "Ok" => games'[g] = games[g]
             /\ games'[g].live =>
                  /\ Len(b.players) <= capacity
                  /\ b.stage = "Waiting" <=> Len(b.players) < capacity]_vars

\* A join on a full Snake game, with a username it has never seen, has just
\* failed with InvalidGameStage.
C14_Witness ==
    /\ ret.op = "receive_join"
    /\ ret.res = "InvalidGameStage"
    /\ games[ret.gid].adapter.type = "snake"
    /\ Len(games[ret.gid].adapter.players) = 4
    /\ \A i \in 1..4 : games[ret.gid].adapter.players[i] # ret.user
    /\ ret.user # ""

\* C15: stage monotonicity. A game enters the registry in stage Waiting, and
\* in every step the stage of a game stays as it is or moves from Waiting to
\* InProgress or from InProgress to Ended: never backwards, never from
\* Waiting to Ended.
C15_StageMonotonic ==
    [][\A g \in GameIds :
          /\ (~Live(g) /\ games'[g].live) =>
                games'[g].adapter.stage = "Waiting"
          /\ (Live(g) /\ games'[g].live) =>
                \/ games'[g].adapter.stage = games[g].adapter.stage
                \/ /\ games[g].adapter.stage = "Waiting"
                   /\ games'[g].adapter.stage = "InProgress"
                \/ /\ games[g].adapter.stage = "InProgress"
                   /\ games'[g].adapter.stage = "Ended"]_vars

\* A Snake game with one player left has gone through all three stages: a
\* move has just ended it.
C15_Witness ==
    /\ ret.op = "receive_move"
    /\ ret.res = "Ok"
    /\ games[ret.gid].adapter.type = "snake"
    /\ games[ret.gid].adapter.stage = "Ended"

\* C16 (stated as claimed; the code violates it): every receive_join and
\* every receive_move on an Ended game, and every receive_move on a Waiting
\* game, fails with InvalidGameStage.
C16_EndedRejectsWithInvalidGameStage ==
    [][\A g \in GameIds :
          (/\ ret'.gid = g
           /\ Live(g)
           /\ \/ /\ ret'.op \in {"receive_join", "receive_move"}
                 /\ games[g].adapter.stage = "Ended"
              \/ /\ ret'.op = "receive_move"
                 /\ games[g].adapter.stage = "Waiting")
          => ret'.res = "InvalidGameStage"]_vars

\* C16 (amended): on an Ended game every receive_join fails with
\* InvalidGameStage; on an Ended or a Waiting game every receive_move fails,
\* with SessionNotFound when its session is not bound in the game and with
\* InvalidGameStage when it is; each of them leaves the game (stage, players,
\* board, turn, winners, notifier clock, sessions, last_update) unchanged.
C16_EndedIsTerminal ==
    [][\A g \in GameIds :
          /\ (/\ ret'.op = "receive_join"
              /\ ret'.gid = g
              /\ Live(g)
              /\ games[g].adapter.stage = "Ended")
             => (ret'.res = "InvalidGameStage" /\ games'[g] = games[g])
          /\ (/\ ret'.op = "receive_move"
              /\ ret'.gid = g
              /\ Live(g)
              /\ games[g].adapter.stage \in {"Ended", "Waiting"})
             => /\ ret'.res = (IF games[g].sessions[ret'.sid] = NoSession
                               THEN "SessionNotFound" ELSE "InvalidGameStage")
                /\ games'[g] = games[g]]_vars

\* A move of a player of an Ended Connect4 game, whose turn it would be, has
\* just been refused with InvalidGameStage.
C16_Witness ==
    /\ ret.op = "receive_move"
    /\ ret.res = "InvalidGameStage"
    /\ games[ret.gid].adapter.type = "connect_4"
    /\ games[ret.gid].adapter.stage = "Ended"
    /\ games[ret.gid].sessions[ret.sid] = ret.user
    /\ ret.user = GetUserFromToken(games[ret.gid].adapter)

\* C17 (stated as claimed; the code violates it): in an InProgress Connect4
\* game every receive_move from the session of the player who is not the
\* current mover fails with InvalidPlayer.
C17_NonMoverGetsInvalidPlayer ==
    [][\A g \in GameIds :
          (/\ ret'.op = "receive_move"
           /\ ret'.gid = g
           /\ Live(g)
           /\ games[g].adapter.type = "connect_4"
           /\ games[g].adapter.stage = "InProgress"
           /\ games[g].sessions[ret'.sid] # NoSession
           /\ games[g].sessions[ret'.sid]
                # games[g].adapter.players[
                      IF games[g].adapter.turn = "Red" THEN 1 ELSE 2])
          => ret'.res = "InvalidPlayer"]_vars

\* C17 (amended): in an InProgress Connect4 game the first-joined player
\* moves first and the turn changes hands with every accepted move that does
\* not end the game; only the current mover's move is accepted; a move from
\* the session of the other player fails, with InvalidPlayer when its payload
\* parses and with the parse error when it does not, and leaves the game
\* (board, turn, stage, last_update, notifier clock) unchanged.
C17_TurnsAlternate ==
    [][\A g \in GameIds :
          LET a == games[g].adapter
              b == games'[g].adapter
              mover == a.players[IF a.turn = "Red" THEN 1 ELSE 2]
              other == a.players[IF a.turn = "Red" THEN 2 ELSE 1]
          IN (Live(g) /\ a.type = "connect_4" /\ a.stage = "InProgress") =>
               /\ a.moves = 0 => a.turn = "Red"
               /\ \A payload \in Payloads :
                    PlayMove(a, other, payload) =
                       [res |-> IF payload = "malformed"
                                THEN "BadPayload" ELSE "InvalidPlayer",
                        a |-> a]
               /\ (ret'.op = "receive_move" /\ ret'.gid = g) =>
                    /\ ret'.res = "Ok" =>
                         /\ ret'.user = mover
                         /\ b.moves = a.moves + 1
                         /\ b.stage = "InProgress" => b.turn # a.turn
                    /\ (games[g].sessions[ret'.sid] = other) =>
                         /\ ret'.res \in {"InvalidPlayer", "BadPayload"}
                         /\ games'[g] = games[g]
                    /\ ret'.res = "InvalidPlayer" =>
                         games[g].sessions[ret'.sid] = other]_vars

\* After two accepted moves it is the first player's turn again, and a move
\* of the second player has just been refused with InvalidPlayer.
C17_Witness ==
    /\ ret.op = "receive_move"
    /\ ret.res = "InvalidPlayer"
    /\ games[ret.gid].adapter.stage = "InProgress"
    /\ games[ret.gid].adapter.moves = 2
    /\ games[ret.gid].adapter.turn = "Red"
    /\ ret.user = games[ret.gid].adapter.players[2]

\* C18: receive_move on an id that is not in the registry fails with
\* GameNotFound; on a live game it fails with SessionNotFound exactly when
\* the session id is not bound in that game, whatever other game bound it,
\* and then changes nothing; otherwise the adapter sees the move as the
\* username bound to the id (so in Connect4 InvalidPlayer is for a session
\* of the player not on turn, and a move gets as far as the board only for
\* the session of the player on turn). A session id is bound once, by the
\* join that returned it, to that join's username.
C18_MoveResolvesSession ==
    [][\A g \in GameIds :
          LET a == games[g].adapter
              bound == games[g].sessions[ret'.sid]
              mover == a.players[IF a.turn = "Red" THEN 1 ELSE 2]
          IN /\ (ret'.op \in {"games.get", "receive_move"} /\ ret'.gid = g) =>
                  (ret'.res = "GameNotFound" <=> ~Live(g))
             /\ (ret'.op = "receive_move" /\ ret'.gid = g /\ Live(g)) =>
                  /\ ret'.res = "SessionNotFound" <=> bound = NoSession
                  /\ bound = NoSession => games'[g] = games[g]
                  /\ bound # NoSession => ret'.user = bound
                  /\ (a.type = "connect_4" /\ a.stage = "InProgress") =>
                       /\ ret'.res = "InvalidPlayer" => bound # mover
                       /\ ret'.res \in {"Ok", "InvalidMove"} => bound = mover
             /\ (Live(g) /\ games'[g].live) =>
                  \A s \in SessionIds :
                     games'[g].sessions[s] # games[g].sessions[s] =>
                        /\ games[g].sessions[s] = NoSession
                        /\ ret'.op = "receive_join"
                        /\ ret'.res = "Ok"
                        /\ ret'.gid = g
                        /\ ret'.sid = s
                        /\ games'[g].sessions[s] = ret'.user]_vars

\* A move has just failed with SessionNotFound for a session id that another
\* live game has bound.
C18_Witness ==
    \E g \in GameIds :
        /\ ret.op = "receive_move"
        /\ ret.res = "SessionNotFound"
        /\ g # ret.gid
        /\ Live(g)
        /\ games[g].sessions[ret.sid] # NoSession

\* C19: an accepted receive_join and an accepted receive_move set the game's
\* last_update to the current time, and no other step changes the last_update
\* of a game in the registry: not get_state, list_games, subscribe, a refused
\* join or move, a sweep or the passing of time. So a sweep that finds the
\* game free and last_update + TTL < now evicts it, however often it was
\* polled.
C19_LastUpdateOnJoinAndMove ==
    [][\A g \in GameIds :
          /\ (Live(g) /\ games'[g].live) =>
               /\ (/\ ret'.op \in {"receive_join", "receive_move"}
                   /\ ret'.gid = g
                   /\ ret'.res = "Ok")
                  => games'[g].last_update = now
               /\ games'[g].last_update # games[g].last_update =>
                    /\ ret'.op \in {"receive_join", "receive_move"}
                    /\ ret'.gid = g
                    /\ ret'.res = "Ok"
          /\ (~Live(g) /\ games'[g].live) => games'[g].last_update = now
          /\ (/\ Live(g)
              /\ ret'.op = "retain"
              /\ ret'.gid = ShardOf(g)
              /\ games[g].last_update + TTL < th[ret'.t].gcNow)
             => ~games'[g].live]_vars

\* A get_state has just returned for a game whose last join or move is more
\* than a TTL ago.
C19_Witness ==
    /\ ret.op = "get_state"
    /\ ret.res = "Ok"
    /\ ret.gid \in GameIds
    /\ Live(ret.gid)
    /\ Len(games[ret.gid].adapter.players) > 0
    /\ games[ret.gid].last_update + TTL < now

\* C20: a game's lock is held by at most one operation at a time; the game's
\* adapter is called (it returns a result for receive_join, receive_move,
\* get_state or subscribe, or it changes) only in a step of the thread that
\* holds the lock, so that the joins and moves on one game take effect one
\* after another, each on the state the one before left.
C20_OneHolderPerGame ==
    [][\A g \in GameIds :
          /\ Cardinality({t \in Threads :
                             th[t].pc = "locked" /\ th[t].gid = g}) <= 1
          /\ \A t \in Threads :
                lockHolder[g] = t <=> (th[t].pc = "locked" /\ th[t].gid = g)
          /\ (ret'.op \in Ops /\ ret'.gid = g) =>
                /\ lockHolder[g] = ret'.t
                /\ lockHolder'[g] = NoThread
          /\ (Live(g) /\ games'[g].live
                /\ games'[g].adapter # games[g].adapter) =>
                /\ ret'.op \in {"receive_join", "receive_move"}
                /\ ret'.res = "Ok"
                /\ lockHolder[g] = ret'.t]_vars

\* Two requests on one game: one holds the lock of a game with a player, the
\* other is past games.get and waits for the lock.
C20_Witness ==
    \E t1, t2 \in Threads :
        /\ th[t1].pc = "locked"
        /\ th[t2].pc = "ref"
        /\ th[t1].gid = th[t2].gid
        /\ Len(games[th[t1].gid].adapter.players) > 0

\* C21: operations on different games do not contend. While a thread holds
\* the lock of game B, another thread's receive_join, receive_move, get_state
\* or subscribe on a different game A can take its next step wherever it
\* stands: games.get, mutex.lock on A, and the body under A's lock.
C21_DifferentGamesDoNotContend ==
    \A t1, t2 \in Threads, A, B \in GameIds :
        (/\ t1 # t2
         /\ A # B
         /\ th[t2].pc = "locked"
         /\ th[t2].gid = B
         /\ lockHolder[B] = t2)
        => /\ th[t1].pc = "idle" => ENABLED GetIn(t1, {A})
           /\ (th[t1].pc = "ref" /\ th[t1].gid = A) => ENABLED Lock(t1)
           /\ (th[t1].pc = "locked" /\ th[t1].gid = A) =>
                /\ ENABLED JoinBody(t1)
                /\ ENABLED MoveBody(t1)
                /\ ENABLED GetStateBody(t1)
                /\ ENABLED SubscribeBody(t1)

\* One thread holds the lock of a game, the other is past games.get on a
\* different game and about to lock it.
C21_Witness ==
    \E t1, t2 \in Threads :
        /\ t1 # t2
        /\ th[t2].pc = "locked"
        /\ lockHolder[th[t2].gid] = t2
        /\ th[t1].pc = "ref"
        /\ th[t1].gid # th[t2].gid
        /\ Live(th[t1].gid)

\* C22: a task suspended in Subscription::wait holds neither the lock of the
\* game it subscribed to nor a reference into the map. While every other
\* request is suspended in wait, a request past games.get can lock the game,
\* a request under the lock can run receive_join, receive_move and get_state,
\* and a sweep can visit the game's shard and finds the game's try_lock free.
C22_SuspendedWaitHoldsNoLock ==
    LET Waiters == {t \in Threads : th[t].pc = "suspended"} IN
    /\ \A g \in GameIds : lockHolder[g] \notin Waiters
    /\ \A s \in Shards : Readers(s) \cap Waiters = {}
    /\ \A t1 \in Threads :
         (Waiters = Threads \ {t1}) =>
            /\ th[t1].pc = "ref" => ENABLED Lock(t1)
            /\ th[t1].pc = "locked" =>
                 /\ ENABLED JoinBody(t1)
                 /\ ENABLED MoveBodyUpTo(t1, MaxMovesGame)
                 /\ ENABLED GetStateBody(t1)
            /\ th[t1].pc = "gc" =>
                 /\ ENABLED GcShard(t1)
                 /\ \A g \in GameIds :
                      (Live(g) /\ ~games[g].poisoned) => TryLockOk(g)

\* A task is suspended in wait on a live game while another request stands
\* before that game's lock.
C22_Witness ==
    \E t, t1 \in Threads :
        /\ th[t].pc = "suspended"
        /\ Live(th[t].gid)
        /\ Len(games[th[t].gid].adapter.players) > 0
        /\ th[t1].pc = "ref"
        /\ th[t1].gid = th[t].gid

\* C23: SearchEngine::apply returns InvalidPage when page = 0, whatever the
\* summaries, the sort key and order and the filters are, and with page >= 1
\* it returns Ok.
C23_InvalidPageIffPageZero ==
    search.listing # NoListing =>
        /\ search.options.page = 0 =>
             /\ ~search.listing.ok
             /\ search.listing.err = "InvalidPage"
             /\ search.listing.items = <<>>
        /\ search.options.page >= 1 =>
             /\ search.listing.ok
             /\ search.listing.err # "InvalidPage"

\* apply was called with page 0, a filter and summaries the filter matches.
C23_Witness ==
    /\ search.listing.err = "InvalidPage"
    /\ search.options.page = 0
    /\ search.options.players # None
    /\ \E i \in 1..Len(search.summaries) :
         Matches(search.summaries[i], search.options)

\* C24: the order of a listing is fixed by its input and options. Of two
\* summaries of the result, the first is the one the first differing key puts
\* first, the keys taken from the requested one onwards round the ring
\* GameType, Players, Stage, LastUpdated, GameType; two summaries equal on
\* all four keys stand in the order the input had them; and the result is a
\* function of the input sequence and the options.
C24_ListingOrderDeterministic ==
    LET Ring == <<"GameType", "Players", "Stage", "LastUpdated">>
        Pos(k) == CHOOSE i \in 1..4 : Ring[i] = k
        KeyAt(k, n) == Ring[((Pos(k) - 1 + n) % 4) + 1]
        Differ(a, b, k) == {n \in 0..3 : KeyCmp(a, b, KeyAt(k, n)) # "Equal"}
        First(a, b, k) == CHOOSE n \in Differ(a, b, k) :
                              \A other \in Differ(a, b, k) : n <= other
        items == search.listing.items
        k == search.options.sort_key
    IN search.listing.ok =>
         /\ \A i, j \in 1..Len(items) :
              i < j =>
                IF Differ(items[i], items[j], k) = {}
                THEN items[i].game_id < items[j].game_id
                ELSE KeyCmp(items[i], items[j],
                            KeyAt(k, First(items[i], items[j], k)))
                       = IF search.options.sort_order = "Asc"
                         THEN "Less" ELSE "Greater"
         /\ search.listing = Apply(search.summaries, search.options)
         /\ \A i \in 1..Len(items) :
              \E p \in 1..Len(search.summaries) : search.summaries[p] = items[i]

\* A listing sorted by LastUpdated whose input had, the other way round, two
\* summaries that tie on LastUpdated and GameType and differ in their number
\* of players, and two that tie on every key.
C24_Witness ==
    LET items == search.listing.items IN
    /\ search.listing.ok
    /\ search.options.sort_key = "LastUpdated"
    /\ \E i, j \in 1..Len(items) :
         /\ i < j
         /\ items[i].game_id > items[j].game_id
         /\ KeyCmp(items[i], items[j], "LastUpdated") = "Equal"
         /\ KeyCmp(items[i], items[j], "Players") # "Equal"
    /\ \E i, j \in 1..Len(items) :
         /\ i < j
         /\ \A key \in SortKeys : KeyCmp(items[i], items[j], key) = "Equal"

\* C25: for any two summaries and the requested sort key, whichever of the
\* four it is, the comparator under Desc
\* gives Greater where it gives Less under Asc, Less where it gives Greater
\* and Equal where it gives Equal. Two summaries that both orders list are
\* therefore in opposite order in the two listings when some key tells them
\* apart, and in the same order (that of the input) when none does.
C25_DescReversesComparator ==
    LET in == search.summaries
        opts == search.options
        flipped == [opts EXCEPT !.sort_order =
                       IF @ = "Asc" THEN "Desc" ELSE "Asc"]
        here == search.listing.items
        there == Apply(in, flipped).items
        at == [i \in 1..Len(here) |->
                 IF \E x \in 1..Len(there) : there[x] = here[i]
                 THEN CHOOSE x \in 1..Len(there) : there[x] = here[i]
                 ELSE 0]
        Tied(a, b) == \A key \in SortKeys : KeyCmp(a, b, key) = "Equal"
    IN search.listing.ok =>
         /\ \A p, q \in 1..Len(in) :
              LET asc == CompareSummaries(in[p], in[q], opts.sort_key, "Asc")
                  desc == CompareSummaries(in[p], in[q], opts.sort_key, "Desc")
              IN /\ asc = "Less" <=> desc = "Greater"
                 /\ asc = "Greater" <=> desc = "Less"
                 /\ asc = "Equal" <=> desc = "Equal"
                 /\ asc = "Equal" <=> Tied(in[p], in[q])
         /\ \A i, j \in 1..Len(here) :
              (i < j /\ at[i] > 0 /\ at[j] > 0) =>
                 IF Tied(here[i], here[j]) THEN at[i] < at[j] ELSE at[j] < at[i]

\* A Desc listing of one page that holds two summaries equal on every key
\* and a third that differs from them, all of them also in the Asc listing.
C25_Witness ==
    LET items == search.listing.items IN
    /\ search.listing.ok
    /\ search.options.sort_order = "Desc"
    /\ search.options.page = 1
    /\ Len(items) = Len(search.summaries)
    /\ \E i, j, l \in 1..Len(items) :
         /\ i < j
         /\ \A key \in SortKeys : KeyCmp(items[i], items[j], key) = "Equal"
         /\ \E key \in SortKeys : KeyCmp(items[i], items[l], key) # "Equal"

C27_IdRoundTrip ==
    ident.parsed # NotParsed =>
        LET bytes == Decode(ident.text.body) IN
        /\ ident.tampering = "none" =>
             /\ ident.text.prefix = Prefix(ident.kind)
             /\ Len(ident.text.body) = (Width(ident.kind) * 8 + 4) \div 5
             /\ ident.parsed.ok
             /\ ident.parsed.id = ident.id
        /\ (\/ ident.text.prefix # Prefix(ident.kind)
            \/ bytes = DecodeNone
            \/ Len(bytes) # Width(ident.kind))
           => ~ident.parsed.ok
        /\ ident.parsed.ok =>
             /\ ident.text.prefix = Prefix(ident.kind)
             /\ Len(ident.parsed.id) = Width(ident.kind)
             /\ ident.parsed.id = bytes

\* A SessionId with mixed bytes was displayed and parsed back.
C27_Witness ==
    /\ ident.kind = "SessionId"
    /\ ident.tampering = "none"
    /\ ident.parsed.ok
    /\ ident.parsed.id = ident.id
    /\ ident.id[SESSION_ID_BYTES] = 165
    /\ ident.id[1] = 60

\* ---------------------------------------------------------------- C28
\* C28: after a legal insertion of a token into column c, winning_move(c) is
\* true exactly when the token just placed lies on a line of four cells of
\* the board, vertical, horizontal or on either diagonal, that all hold the
\* colour of the current turn (so on a contiguous line of at least four);
\* and winning_move(c) is false for c outside the board.
C28_WinningMoveIffLineOfFour ==
    /\ (c4.last.res = "none" /\ c4.last.column >= 0) =>
         LET col == c4.last.column
             row == Len(c4.board[col + 1]) - 1
             line == \E d \in {<<0, 1>>, <<1, 0>>, <<1, 1>>, <<1, -1>>} :
                       \E k \in 0..(CONNECT_FOUR - 1) :
                         \A i \in 0..(CONNECT_FOUR - 1) :
                           LET r == row + (i - k) * d[2]
                               c == col + (i - k) * d[1]
                           IN /\ r \in 0..(ROW_SIZE - 1)
                              /\ c \in 0..(COL_SIZE - 1)
                              /\ r < Len(c4.board[c + 1])
                              /\ c4.board[c + 1][r + 1] = c4.turn
         IN c4.last.win <=> line
    /\ c4.last.column >= COL_SIZE => ~c4.last.win

\* A win on a diagonal only: the token below and the tokens left and right
\* of the one just placed are not of its colour.
C28_Witness ==
    /\ c4.last.res = "none"
    /\ c4.last.column >= 0
    /\ c4.last.win
    /\ LET col == c4.last.column
           row == Len(c4.board[col + 1]) - 1
       IN /\ GetCellAt(c4.board, row - 1, col) # c4.turn
          /\ GetCellAt(c4.board, row, col - 1) # c4.turn
          /\ GetCellAt(c4.board, row, col + 1) # c4.turn

\* ---------------------------------------------------------------- C29
\* The errors receive_join and receive_move return (a panic is none of them).
JoinErrors == {"InvalidGameStage", "TooShort", "TooLong", "AlreadyInGame"}
MoveErrors ==
    {"SessionNotFound", "InvalidGameStage", "InvalidPlayer", "InvalidMove",
     "BadPayload"}

\* The step returns an error from a receive_join or a receive_move, the
\* GameNotFound of either included.
FailedJoinOrMove ==
    \/ ret'.op = "games.get" /\ ret'.res = "GameNotFound"
    \/ ret'.op = "receive_join" /\ ret'.res \in JoinErrors
    \/ ret'.op = "receive_move" /\ ret'.res \in MoveErrors

\* C29: a receive_join or a receive_move that returns an error leaves the
\* game as it was (sessions, players, accepted moves, turn, winner, stage,
\* last_update, notifier clock) and every other game as it was.
C29_ErrorLeavesGamesUnchanged ==
    [][FailedJoinOrMove => games' = games]_vars

\* A move into a full column was refused at a time later than the game's
\* last update, while the other game is live and has a player.
C29_Witness ==
    /\ ret.op = "receive_move"
    /\ ret.res = "InvalidMove"
    /\ Live(ret.gid)
    /\ games[ret.gid].last_update < now
    /\ \E other \in GameIds \ {ret.gid} :
         Live(other) /\ Len(games[other].adapter.players) >= 1

\* ---------------------------------------------------------------- C30
\* C30: the notifier clock of a game is INITIAL_CLOCK when the game is made
\* (nothing broadcast yet); a step in which a receive_join or a receive_move
\* on the game returns Ok raises the clock by exactly one and broadcasts
\* exactly one value; every other step (a failed join or move, get_state,
\* list_games, subscribe, a wait, a sweep that keeps the game, the passing
\* of time) leaves the clock and the number of broadcasts as they are. So
\* the clock of a game never decreases.
C30_ClockCountsMutations ==
    [][\A g \in GameIds :
         LET mutated == /\ ret'.op \in {"receive_join", "receive_move"}
                        /\ ret'.res = "Ok"
                        /\ ret'.gid = g
         IN /\ (~Live(g) /\ games'[g].live) =>
                 /\ games'[g].adapter.clock = INITIAL_CLOCK
                 /\ games'[g].adapter.broadcasts = 0
            /\ (Live(g) /\ games'[g].live) =>
                 /\ games'[g].adapter.clock >= games[g].adapter.clock
                 /\ games'[g].adapter.clock - games[g].adapter.clock =
                      (IF mutated THEN 1 ELSE 0)
                 /\ games'[g].adapter.broadcasts - games[g].adapter.broadcasts =
                      (IF mutated THEN 1 ELSE 0)
            /\ mutated => Live(g) /\ games'[g].live]_vars

\* A move was accepted on a game two players had joined: the third mutation.
C30_Witness ==
    /\ ret.op = "receive_move"
    /\ ret.res = "Ok"
    /\ Live(ret.gid)
    /\ games[ret.gid].adapter.clock = INITIAL_CLOCK + 3
    /\ games[ret.gid].adapter.broadcasts = 3

\* ---------------------------------------------------------------- C31
\* The session ids game g has bound.
BoundSessions(g) == {sid \in SessionIds : games[g].sessions[sid] # NoSession}

\* C31: in a live game the sessions and the admitted players correspond one
\* to one: as many sessions as players, every session's username is one of
\* the players, no two sessions carry the same username (a SessionId is the
\* key of the map and so binds one session); and a step in which the game
\* stays in the registry keeps every session bound to the username it had.
C31_SessionsMatchPlayers ==
    [][\A g \in GameIds :
         /\ games'[g].live =>
              LET game == games'[g]
                  bound == {sid \in SessionIds : game.sessions[sid] # NoSession}
              IN /\ Cardinality(bound) = Len(game.adapter.players)
                 /\ \A sid \in bound :
                      \E i \in 1..Len(game.adapter.players) :
                        game.adapter.players[i] = game.sessions[sid]
                 /\ \A s1, s2 \in bound :
                      game.sessions[s1] = game.sessions[s2] => s1 = s2
         /\ (Live(g) /\ games'[g].live) =>
              \A sid \in BoundSessions(g) :
                games'[g].sessions[sid] = games[g].sessions[sid]]_vars

\* A join was refused for a name already in a game with two sessions, while
\* the other game has a session of its own under the same SessionId.
C31_Witness ==
    /\ ret.op = "receive_join"
    /\ ret.res \in {"AlreadyInGame", "InvalidGameStage"}
    /\ Live(ret.gid)
    /\ Cardinality(BoundSessions(ret.gid)) = NUM_PLAYERS
    /\ \E other \in GameIds \ {ret.gid} :
         Live(other) /\ BoundSessions(other) \cap BoundSessions(ret.gid) # {}

\* ---------------------------------------------------------------- C32
\* Thread t is in an operation that cannot go on in this state.
Stuck(t) ==
    /\ th[t].pc # "idle"
    /\ ~ENABLED Continue(t)

\* Every id the loop of create_game can draw is taken.
RegistryFull == \A id \in GameIds : Live(id)

C33_NoPanicNoPoison ==
    /\ ret.res # "panic"
    /\ \A g \in GameIds :
         Live(g) =>
           LET a == games[g].adapter IN
           /\ ~games[g].poisoned
           /\ a.stage = "Waiting" => AdapterAddPlayerAsserts(a)
           /\ (a.type = "connect_4" /\ a.stage = "InProgress") =>
                TokenHasUser(a, a.turn)
           /\ ~AdapterEncodedStatePanics(a)

\* get_state returned the state of a game with tokens of both colours on
\* the board after the game had ended.
C33_Witness ==
    /\ ret.op = "get_state"
    /\ ret.res = "Ok"
    /\ Live(ret.gid)
    /\ games[ret.gid].adapter.moves >= 2
    /\ games[ret.gid].adapter.stage = "Ended"

====
